---------------------------- MODULE Spec2Model ----------------------------
(***************************************************************************)
(* A model of the comment enrichment pipeline: CSV intake, the batched     *)
(* enrichment runs (on demand and in the background), the enrichment       *)
(* client with its local fallbacks, and the status/statistics queries.     *)
(*                                                                         *)
(* Conventions.  A text is a sequence of one-character strings.  A         *)
(* confidence is an integer number of hundredths (0.5 is 50).  A JSON      *)
(* value is a record tagged by "type".  A promise outcome is a record      *)
(* tagged by "status".                                                     *)
(***************************************************************************)
EXTENDS Integers, Sequences, FiniteSets, TLC

(***************************************************************************)
(* Strings                                                                 *)
(***************************************************************************)

UpperCase ==
  <<"A","B","C","D","E","F","G","H","I","J","K","L","M",
    "N","O","P","Q","R","S","T","U","V","W","X","Y","Z">>

LowerCase ==
  <<"a","b","c","d","e","f","g","h","i","j","k","l","m",
    "n","o","p","q","r","s","t","u","v","w","x","y","z">>

LowerChar(c) ==
  IF \E k \in 1..Len(UpperCase) : UpperCase[k] = c
  THEN LowerCase[CHOOSE k \in 1..Len(UpperCase) : UpperCase[k] = c]
  ELSE c

\* String.prototype.toLowerCase
ToLowerCase(text) == [k \in 1..Len(text) |-> LowerChar(text[k])]

\* String.prototype.includes
Includes(text, word) ==
  \E k \in 1..(Len(text) - Len(word) + 1) :
    SubSeq(text, k, k + Len(word) - 1) = word

WhiteSpace == {" ", "\t", "\n", "\r"}

RECURSIVE TrimStart(_)
TrimStart(text) ==
  IF text # <<>> /\ Head(text) \in WhiteSpace THEN TrimStart(Tail(text)) ELSE text

RECURSIVE TrimEnd(_)
TrimEnd(text) ==
  IF text # <<>> /\ text[Len(text)] \in WhiteSpace
  THEN TrimEnd(SubSeq(text, 1, Len(text) - 1))
  ELSE text

\* String.prototype.trim
Trim(text) == TrimEnd(TrimStart(text))

\* Array.prototype.join over texts
RECURSIVE Join(_, _)
Join(parts, sep) ==
  IF parts = <<>> THEN <<>>
  ELSE IF Len(parts) = 1 THEN parts[1]
  ELSE parts[1] \o sep \o Join(Tail(parts), sep)

\* pieces.filter(s => s.trim().length > 0)
RECURSIVE NonBlank(_)
NonBlank(pieces) ==
  IF pieces = <<>> THEN <<>>
  ELSE IF Len(Trim(Head(pieces))) > 0
       THEN <<Head(pieces)>> \o NonBlank(Tail(pieces))
       ELSE NonBlank(Tail(pieces))

SentenceEnd == {".", "!", "?"}

\* text.split(/[.!?]+/): the pieces between maximal runs of terminators, in
\* order; a terminator run at either end of the text leaves an empty piece
\* there, and a text with no terminator is one piece.
IsTerminator(text, k) == text[k] \in SentenceEnd

PieceStarts(text) ==
  {k \in 1..Len(text) :
     ~IsTerminator(text, k) /\ (k = 1 \/ IsTerminator(text, k - 1))}

PieceEnd(text, k) ==
  CHOOSE j \in k..Len(text) :
    /\ \A m \in k..j : ~IsTerminator(text, m)
    /\ (j = Len(text) \/ IsTerminator(text, j + 1))

SplitSentences(text) ==
  LET starts == PieceStarts(text)
      nth(i) == CHOOSE k \in starts : Cardinality({m \in starts : m <= k}) = i
      inner  == [i \in 1..Cardinality(starts) |->
                   SubSeq(text, nth(i), PieceEnd(text, nth(i)))]
      lead   == IF text # <<>> /\ IsTerminator(text, 1) THEN << <<>> >> ELSE <<>>
      trail  == IF text # <<>> /\ IsTerminator(text, Len(text)) THEN << <<>> >> ELSE <<>>
  IN  IF text = <<>> THEN << <<>> >> ELSE lead \o inner \o trail

Min(a, b) == IF a < b THEN a ELSE b

DigitChars == <<"0","1","2","3","4","5","6","7","8","9">>

\* Number.prototype.toString for a non-negative integer
RECURSIVE NumberToString(_)
NumberToString(n) ==
  IF n < 10 THEN DigitChars[n + 1]
  ELSE NumberToString(n \div 10) \o DigitChars[(n % 10) + 1]

(***************************************************************************)
(* JSON values and promise outcomes                                        *)
(***************************************************************************)

JArray(items)  == [type |-> "array", items |-> items]
JObject(flds)  == [type |-> "object", fields |-> flds]
JString(s)     == [type |-> "string", value |-> s]
JNumber(n)     == [type |-> "number", value |-> n]
JNull          == [type |-> "null"]
JUndefined     == [type |-> "undefined"]

\* value.key: undefined when the value has no such property
Get(value, key) ==
  IF value.type = "object" /\ key \in DOMAIN value.fields
  THEN value.fields[key]
  ELSE JUndefined

\* Reading a property of null or undefined throws a TypeError.
ThrowsOnGet(value) == value.type \in {"null", "undefined"}

\* a > b on JSON numbers; with undefined on either side it is false
Greater(a, b) == a.type = "number" /\ b.type = "number" /\ a.value > b.value

Truthy(value) ==
  CASE value.type = "string" -> value.value # <<>>
    [] value.type = "number" -> value.value # 0
    [] value.type \in {"null", "undefined"} -> FALSE
    [] OTHER -> TRUE

Fulfilled(v) == [status |-> "fulfilled", value |-> v]
Rejected     == [status |-> "rejected"]

\* The outcome of fetch(...) followed by response.json(): the request fails in
\* transport, or a response arrives with its ok flag and its body; a body that
\* is no JSON has type "invalid" (response.json() rejects).
TransportFailure == [kind |-> "rejected"]
\* The request fails and, unexpectedly, the catch block that handles the
\* failure throws in its turn: the error escapes the method.
Escaped == [kind |-> "escaped"]
Response(ok, body) == [kind |-> "response", ok |-> ok, body |-> body]
NotJson == [type |-> "invalid"]

(***************************************************************************)
(* AIProcessor: the enrichment client                                      *)
(***************************************************************************)

positiveWords ==
  <<
    <<"e","x","c","e","l","l","e","n","t">>,
    <<"g","o","o","d">>,
    <<"g","r","e","a","t">>,
    <<"a","m","a","z","i","n","g">>,
    <<"w","o","n","d","e","r","f","u","l">>,
    <<"f","a","n","t","a","s","t","i","c">>,
    <<"l","o","v","e">>,
    <<"p","e","r","f","e","c","t">>,
    <<"o","u","t","s","t","a","n","d","i","n","g">>,
    <<"s","a","t","i","s","f","i","e","d">>,
    <<"h","a","p","p","y">>
  >>

negativeWords ==
  <<
    <<"t","e","r","r","i","b","l","e">>,
    <<"b","a","d">>,
    <<"a","w","f","u","l">>,
    <<"h","o","r","r","i","b","l","e">>,
    <<"h","a","t","e">>,
    <<"w","o","r","s","t">>,
    <<"d","i","s","a","p","p","o","i","n","t","i","n","g">>,
    <<"p","o","o","r">>,
    <<"u","n","a","c","c","e","p","t","a","b","l","e">>,
    <<"f","r","u","s","t","r","a","t","e","d">>,
    <<"a","n","g","r","y">>
  >>

\* words.reduce((score, word) => score + (text.includes(word) ? 1 : 0), 0)
KeywordScore(words, lowercaseText) ==
  Cardinality({k \in 1..Len(words) : Includes(lowercaseText, words[k])})

\* A variant of the local scorer with no Math.min around the confidence.
FallbackSentimentAnalysisUncapped(text) ==
  LET lowercaseText == ToLowerCase(text)
      positiveScore == KeywordScore(positiveWords, lowercaseText)
      negativeScore == KeywordScore(negativeWords, lowercaseText)
  IN  IF positiveScore > negativeScore
      THEN [sentiment |-> "positive", confidence |-> 50 + positiveScore * 10]
      ELSE IF negativeScore > positiveScore
      THEN [sentiment |-> "negative", confidence |-> 50 + negativeScore * 10]
      ELSE [sentiment |-> "neutral", confidence |-> 50]

fallbackSentimentAnalysis(text) ==
  LET lowercaseText == ToLowerCase(text)
      positiveScore == KeywordScore(positiveWords, lowercaseText)
      negativeScore == KeywordScore(negativeWords, lowercaseText)
  IN  IF positiveScore > negativeScore
      THEN [sentiment |-> "positive", confidence |-> Min(80, 50 + positiveScore * 10)]
      ELSE IF negativeScore > positiveScore
      THEN [sentiment |-> "negative", confidence |-> Min(80, 50 + negativeScore * 10)]
      ELSE [sentiment |-> "neutral", confidence |-> 50]

fallbackSummarization(text) ==
  LET sentences == NonBlank(SplitSentences(text))
  IN  IF Len(sentences) <= 2
      THEN text
      ELSE Append(Trim(Join(SubSeq(sentences, 1, 2), <<".", " ">>)), ".")

\* result[0].reduce((prev, current) => prev.score > current.score ? prev : current)
RECURSIVE ReduceTop(_, _)
ReduceTop(prev, rest) ==
  IF rest = <<>> THEN prev
  ELSE ReduceTop(IF Greater(Get(prev, "score"), Get(Head(rest), "score"))
                 THEN prev ELSE Head(rest),
                 Tail(rest))

LabelIs(top, name) ==
  LET label == Get(top, "label")
  IN  label.type = "string" /\ label.value = name

\* The try block of analyzeSentiment: the value it returns, or Rejected when a
\* statement of it throws.  The sampled payloads carry numeric scores.
AnalyzeSentimentTry(text, outcome) ==
  IF outcome.kind # "response" THEN Rejected
  ELSE IF ~outcome.ok THEN Rejected
  ELSE IF outcome.body.type = "invalid" THEN Rejected
  ELSE LET result == outcome.body IN
    IF result.type = "array" /\ Len(result.items) > 0
    THEN LET first == result.items[1] IN
         IF first.type # "array" THEN Rejected           \* reduce is not a function
         ELSE IF first.items = <<>> THEN Rejected        \* reduce of an empty array
         ELSE IF \E k \in 1..Len(first.items) : ThrowsOnGet(first.items[k])
              THEN Rejected
         ELSE LET topSentiment == ReduceTop(Head(first.items), Tail(first.items))
                  sentiment ==
                    IF LabelIs(topSentiment, "LABEL_0") THEN "negative"
                    ELSE IF LabelIs(topSentiment, "LABEL_1") THEN "neutral"
                    ELSE IF LabelIs(topSentiment, "LABEL_2") THEN "positive"
                    ELSE "neutral"
              IN  Fulfilled([sentiment |-> sentiment,
                             confidence |-> Get(topSentiment, "score").value])
    ELSE Fulfilled([sentiment |-> "neutral", confidence |-> 0])

analyzeSentiment(text, outcome) ==
  LET tried == AnalyzeSentimentTry(text, outcome)
  IN  IF tried.status = "rejected"
      THEN IF outcome.kind = "escaped" THEN Rejected
           ELSE Fulfilled(fallbackSentimentAnalysis(text))
      ELSE tried

SummarizeMinLength == 100

\* The try block of summarizeText.  No request is made for a short text.
SummarizeTextTry(text, outcome) ==
  IF Len(text) < SummarizeMinLength THEN Fulfilled(text)
  ELSE IF outcome.kind # "response" THEN Rejected
  ELSE IF ~outcome.ok THEN Rejected
  ELSE IF outcome.body.type = "invalid" THEN Rejected
  ELSE LET result == outcome.body IN
    IF result.type = "array" /\ Len(result.items) > 0
    THEN IF ThrowsOnGet(result.items[1]) THEN Rejected
         ELSE IF Truthy(Get(result.items[1], "summary_text"))
              THEN Fulfilled(Get(result.items[1], "summary_text").value)
              ELSE Fulfilled(fallbackSummarization(text))
    ELSE Fulfilled(fallbackSummarization(text))

summarizeText(text, outcome) ==
  LET tried == SummarizeTextTry(text, outcome)
  IN  IF tried.status = "rejected"
      THEN IF outcome.kind = "escaped" THEN Rejected
           ELSE Fulfilled(fallbackSummarization(text))
      ELSE tried

\* A variant of processComment that awaits the two requests with no catch
\* around them and none inside: a failed request rejects the whole call.
ProcessCommentNoCatch(commentText, sentimentOutcome, summaryOutcome) ==
  LET s == AnalyzeSentimentTry(commentText, sentimentOutcome)
      m == SummarizeTextTry(commentText, summaryOutcome)
  IN  IF s.status = "rejected" \/ m.status = "rejected"
      THEN Rejected
      ELSE Fulfilled([sentiment |-> s.value.sentiment,
                      confidence |-> s.value.confidence,
                      summary |-> m.value,
                      processed |-> TRUE])

processComment(commentText, sentimentOutcome, summaryOutcome) ==
  LET s == analyzeSentiment(commentText, sentimentOutcome)
      m == summarizeText(commentText, summaryOutcome)
  IN  IF s.status = "rejected" \/ m.status = "rejected"
      THEN Fulfilled([sentiment |-> "neutral",
                      confidence |-> 0,
                      summary |-> commentText,
                      processed |-> FALSE])
      ELSE Fulfilled([sentiment |-> s.value.sentiment,
                      confidence |-> s.value.confidence,
                      summary |-> m.value,
                      processed |-> TRUE])

(***************************************************************************)
(* AIProcessor: the word cloud                                             *)
(***************************************************************************)

\* \w: letters, digits and the underscore
WordChars ==
  {UpperCase[k] : k \in 1..Len(UpperCase)} \cup {LowerCase[k] : k \in 1..Len(LowerCase)}
    \cup {DigitChars[k] : k \in 1..Len(DigitChars)} \cup {"_"}

\* .replace(/[^\w\s]/g, '')
StripPunctuation(text) == SelectSeq(text, LAMBDA c : c \in WordChars \cup WhiteSpace)

\* .split(/\s+/): the maximal runs of characters that are not whitespace, in
\* order.  (The empty strings split yields at a leading or trailing run of
\* whitespace have length 0 and do not pass the filter that follows.)
WordStarts(text) ==
  {k \in 1..Len(text) : text[k] \notin WhiteSpace /\ (k = 1 \/ text[k - 1] \in WhiteSpace)}

WordEnd(text, k) ==
  CHOOSE j \in k..Len(text) :
    /\ \A i \in k..j : text[i] \notin WhiteSpace
    /\ j = Len(text) \/ text[j + 1] \in WhiteSpace

\* The n-th smallest element of a set of numbers
Nth(S, n) == CHOOSE x \in S : Cardinality({y \in S : y < x}) = n - 1

SplitWords(text) ==
  LET starts == WordStarts(text)
  IN  [n \in 1..Cardinality(starts) |->
         SubSeq(text, Nth(starts, n), WordEnd(text, Nth(starts, n)))]

stopWords ==
  {
    <<"t","h","e">>, <<"a","n","d">>, <<"o","r">>, <<"b","u","t">>,
    <<"i","n">>, <<"o","n">>, <<"a","t">>, <<"t","o">>, <<"f","o","r">>,
    <<"o","f">>, <<"w","i","t","h">>, <<"b","y">>, <<"f","r","o","m">>,
    <<"u","p">>, <<"a","b","o","u","t">>, <<"i","n","t","o">>,
    <<"t","h","r","o","u","g","h">>, <<"d","u","r","i","n","g">>,
    <<"b","e","f","o","r","e">>, <<"a","f","t","e","r">>,
    <<"a","b","o","v","e">>, <<"b","e","l","o","w">>,
    <<"b","e","t","w","e","e","n">>, <<"a","m","o","n","g">>,
    <<"t","h","i","s">>, <<"t","h","a","t">>, <<"t","h","e","s","e">>,
    <<"t","h","o","s","e">>, <<"i">>, <<"m","e">>, <<"m","y">>,
    <<"m","y","s","e","l","f">>, <<"w","e">>, <<"o","u","r">>,
    <<"o","u","r","s">>, <<"o","u","r","s","e","l","v","e","s">>,
    <<"y","o","u">>, <<"y","o","u","r">>, <<"y","o","u","r","s">>,
    <<"y","o","u","r","s","e","l","f">>,
    <<"y","o","u","r","s","e","l","v","e","s">>, <<"h","e">>,
    <<"h","i","m">>, <<"h","i","s">>, <<"h","i","m","s","e","l","f">>,
    <<"s","h","e">>, <<"h","e","r">>, <<"h","e","r","s">>,
    <<"h","e","r","s","e","l","f">>, <<"i","t">>, <<"i","t","s">>,
    <<"i","t","s","e","l","f">>, <<"t","h","e","y">>, <<"t","h","e","m">>,
    <<"t","h","e","i","r">>, <<"t","h","e","i","r","s">>,
    <<"t","h","e","m","s","e","l","v","e","s">>, <<"w","h","a","t">>,
    <<"w","h","i","c","h">>, <<"w","h","o">>, <<"w","h","o","m">>,
    <<"a","m">>, <<"i","s">>, <<"a","r","e">>, <<"w","a","s">>,
    <<"w","e","r","e">>, <<"b","e">>, <<"b","e","e","n">>,
    <<"b","e","i","n","g">>, <<"h","a","v","e">>, <<"h","a","s">>,
    <<"h","a","d">>, <<"h","a","v","i","n","g">>, <<"d","o">>,
    <<"d","o","e","s">>, <<"d","i","d">>, <<"d","o","i","n","g">>, <<"a">>,
    <<"a","n">>, <<"i","f">>, <<"b","e","c","a","u","s","e">>, <<"a","s">>,
    <<"u","n","t","i","l">>, <<"w","h","i","l","e">>, <<"v","e","r","y">>,
    <<"c","a","n">>, <<"w","i","l","l">>, <<"j","u","s","t">>,
    <<"s","h","o","u","l","d">>, <<"n","o","w">>
  }

isStopWord(word) == ToLowerCase(word) \in stopWords

\* The words of one comment that pass the filter
CommentWords(comment) ==
  SelectSeq(SplitWords(StripPunctuation(ToLowerCase(comment.originalText))),
            LAMBDA word : Len(word) > 3 /\ ~isStopWord(word))

\* comments.forEach(...): the words of all comments, in order
RECURSIVE AllWords(_)
AllWords(comments) ==
  IF comments = <<>> THEN <<>>
  ELSE CommentWords(Head(comments)) \o AllWords(Tail(comments))

WordCloudLimit == 50

\* A variant of generateWordCloud that returns every entry.
GenerateWordCloudWhole(comments) ==
  LET words == AllWords(comments)
      firsts == {k \in 1..Len(words) : \A j \in 1..(k - 1) : words[j] # words[k]}
      entries == [n \in 1..Cardinality(firsts) |->
                    LET k == Nth(firsts, n)
                    IN  [text |-> words[k],
                         value |-> Cardinality({j \in 1..Len(words) : words[j] = words[k]})]]
      rank(i) == 1 + Cardinality({j \in 1..Len(entries) :
                        \/ entries[j].value > entries[i].value
                        \/ entries[j].value = entries[i].value /\ j < i})
  IN  [n \in 1..Len(entries) |-> entries[CHOOSE i \in 1..Len(entries) : rank(i) = n]]

\* wordCount is a Map: its entries are in the order of each word's first
\* occurrence.  Array.prototype.sort is stable: entries of equal value keep
\* that order.  Then slice(0, 50).
generateWordCloud(comments) ==
  LET words == AllWords(comments)
      firsts == {k \in 1..Len(words) : \A j \in 1..(k - 1) : words[j] # words[k]}
      entries == [n \in 1..Cardinality(firsts) |->
                    LET k == Nth(firsts, n)
                    IN  [text |-> words[k],
                         value |-> Cardinality({j \in 1..Len(words) : words[j] = words[k]})]]
      rank(i) == 1 + Cardinality({j \in 1..Len(entries) :
                        \/ entries[j].value > entries[i].value
                        \/ entries[j].value = entries[i].value /\ j < i})
      sorted == [n \in 1..Len(entries) |-> entries[CHOOSE i \in 1..Len(entries) : rank(i) = n]]
  IN  SubSeq(sorted, 1, Min(WordCloudLimit, Len(sorted)))

(***************************************************************************)
(* Sample texts and remote answers                                         *)
(***************************************************************************)

TextGreat == <<"G","r","e","a","t"," ","s","e","r","v","i","c","e">>
TextBad   == <<"b","a","d">>
TextPlain == <<" ","f","i","n","e"," ">>
TextBlank == <<" ", " ">>

\* 106 characters, three sentences
TextLong ==
  <<
     "T","h","e"," ","n","e","w"," ","p","o","r","t",
     "a","l"," ","i","s"," ","g","o","o","d","."," ",
     "S","t","a","f","f"," ","w","e","r","e"," ","g",
     "r","e","a","t"," ","a","n","d"," ","q","u","i",
     "c","k"," ","t","o"," ","h","e","l","p","."," ",
     "S","a","d","l","y"," ","t","h","e"," ","f","e",
     "e","s"," ","a","r","e"," ","b","a","d"," ","a",
     "n","d"," ","t","h","e"," ","f","o","r","m","s",
     " ","a","r","e"," ","p","o","o","r","."
  >>

RemoteSummary ==
  <<"P","o","r","t","a","l"," ","g","o","o","d",","," ",
    "f","e","e","s"," ","b","a","d",".">>

Entry(label, score) == JObject([label |-> JString(label), score |-> JNumber(score)])

ErrorBody == JObject([error |-> JString(<<"l","o","a","d","i","n","g">>)])

\* What the sentiment request can come back with.
SentimentOutcomes ==
  { TransportFailure,
    Response(FALSE, ErrorBody),
    Response(TRUE, NotJson),
    Response(TRUE, ErrorBody),
    Response(TRUE, JArray(<<>>)),
    Response(TRUE, JArray(<<Entry("LABEL_2", 93)>>)),
    Response(TRUE, JArray(<<JNull>>)),
    Response(TRUE, JArray(<<JArray(<<>>)>>)),
    Response(TRUE, JArray(<<JArray(<<JNull>>)>>)),
    Response(TRUE, JArray(<<JArray(<<Entry("LABEL_0", 5), Entry("LABEL_1", 2),
                                     Entry("LABEL_2", 93)>>)>>)),
    Response(TRUE, JArray(<<JArray(<<Entry("LABEL_0", 88), Entry("LABEL_1", 10),
                                     Entry("LABEL_2", 2)>>)>>)),
    Response(TRUE, JArray(<<JArray(<<Entry("LABEL_1", 40), Entry("LABEL_0", 40),
                                     Entry("LABEL_2", 20)>>)>>)),
    Response(TRUE, JArray(<<JArray(<<Entry("POSITIVE", 99)>>)>>)),
    Response(TRUE, JArray(<<JArray(<<Entry("LABEL_2", 170), Entry("LABEL_0", 5)>>)>>)) }

\* What the summarization request can come back with.
SummaryOutcomes ==
  { TransportFailure,
    Response(FALSE, ErrorBody),
    Response(TRUE, NotJson),
    Response(TRUE, ErrorBody),
    Response(TRUE, JArray(<<>>)),
    Response(TRUE, JArray(<<JNull>>)),
    Response(TRUE, JArray(<<JObject([summary_text |-> JString(<<>>)])>>)),
    Response(TRUE, JArray(<<JObject([summary_text |-> JString(RemoteSummary)])>>)) }

(***************************************************************************)
(* The pipeline: intake, scheduler runs, queries                           *)
(***************************************************************************)

VARIABLES
  inbox,      \* the HTTP requests clients have sent and the server has yet to receive
  now,        \* Date.now(), in milliseconds
  comments,   \* the Comment collection; a document's _id is its position
  uploads,    \* the POST /upload requests received, in order
  runs,       \* the scheduler runs started, in order
  queries,    \* the GET /status and GET /statistics requests, in order
  call,       \* the last direct call of a method of AIProcessor, with its result
  page        \* the state of the upload page in the browser

vars == <<inbox, now, comments, uploads, runs, queries, call, page>>

MaxClock == 1     \* the clock runs from 0 to MaxClock
MaxPolls == 2     \* the page calls pollProcessingStatus at most MaxPolls times
MaxTotal == 200   \* the counts of a status answer computed directly run up to MaxTotal

OnDemandBatchSize   == 5
BackgroundBatchSize == 3

\* A parsed CSV row after header mapping: the id and text columns, "" or <<>>
\* when the column is missing or empty.
Row(id, text) == [comment_id |-> id, comment_text |-> text]

NoFile == [present |-> FALSE, rows |-> <<>>]
File(rows) == [present |-> TRUE, rows |-> rows]

FileBlank == File(<<Row("", TextBlank)>>)
FileOne   == File(<<Row("", TextGreat)>>)
FileTwo   == File(<<Row("c1", TextPlain), Row("", TextBlank), Row("", TextBad)>>)
FileLong  == File(<<Row("c9", TextLong)>>)
FileMixed == File(<<Row("comment_2", TextPlain), Row("", TextBad)>>)
FileSeven == File(<<Row("", TextGreat), Row("", TextBad), Row("", TextPlain),
                    Row("", TextGreat), Row("", TextBad), Row("", TextPlain),
                    Row("", TextGreat)>>)
FileFour  == File(<<Row("", TextGreat), Row("", TextBad), Row("", TextGreat),
                    Row("", TextPlain)>>)

\* The requests of the four routes.
UploadRequest(file) ==
  [route |-> "upload", file |-> file, uploadSession |-> ""]
ProcessingRequest(uploadSession) ==
  [route |-> "process", file |-> NoFile, uploadSession |-> uploadSession]
StatusRequest(uploadSession) ==
  [route |-> "status", file |-> NoFile, uploadSession |-> uploadSession]
StatisticsRequest(uploadSession) ==
  [route |-> "statistics", file |-> NoFile, uploadSession |-> uploadSession]

\* What the clients send; the server receives the requests of one list in any
\* order and at any time.
Scenarios ==
  { <<UploadRequest(NoFile)>>,
    <<UploadRequest(FileBlank)>>,
    <<UploadRequest(FileLong)>>,
    <<UploadRequest(FileFour)>>,
    <<UploadRequest(FileMixed)>>,
    <<UploadRequest(FileTwo), ProcessingRequest("0")>>,
    <<UploadRequest(FileTwo), StatisticsRequest("0")>>,
    <<ProcessingRequest("0"), StatusRequest("0")>>,
    <<UploadRequest(FileOne), ProcessingRequest("0"), StatusRequest("0")>> }

\* The requests received while the remote models are unreachable.
OfflineScenarios ==
  { <<UploadRequest(FileOne), UploadRequest(FileOne), StatusRequest("0")>>,
    <<UploadRequest(FileOne), ProcessingRequest("0"), StatusRequest("0")>>,
    <<ProcessingRequest("0"), StatusRequest("0")>>,
    <<UploadRequest(FileFour)>> }

\* The list without its k-th element
Remove(seq, k) == SubSeq(seq, 1, k - 1) \o SubSeq(seq, k + 1, Len(seq))

\* The answers the two remote models give during a run: for each request a
\* transport failure, a non-2xx response, a malformed payload and a well-formed
\* answer.
RunSentimentOutcomes ==
  { TransportFailure,
    Response(FALSE, ErrorBody),
    Response(TRUE, ErrorBody),
    Response(TRUE, JArray(<<JArray(<<Entry("LABEL_0", 5), Entry("LABEL_1", 2),
                                     Entry("LABEL_2", 93)>>)>>)) }

RunSummaryOutcomes ==
  { TransportFailure,
    Response(FALSE, ErrorBody),
    Response(TRUE, JArray(<<JNull>>)),
    Response(TRUE, JArray(<<JObject([summary_text |-> JString(RemoteSummary)])>>)) }

NoCall == [method |-> ""]

NoResponse == [status |-> 0]
NoResult   == [processed |-> FALSE, none |-> TRUE]

\* The upload page before a file is chosen: useState('') for uploadSession,
\* useState(false) for isProcessing, useState(null) for processingStatus.
\* pc follows handleFileUpload and pollProcessingStatus, polls counts the
\* calls of pollProcessingStatus, query is the request the last one made.
NoPage ==
  [pc |-> "idle",
   uploadSession |-> "",
   isProcessing |-> FALSE,
   processingStatus |-> NoResponse,
   polls |-> 0,
   query |-> 0]

\* A new document with the schema's defaults.
NewComment(c) ==
  [commentId     |-> c.commentId,
   originalText  |-> c.originalText,
   summary       |-> <<>>,
   sentiment     |-> "neutral",
   confidence    |-> 0,
   processed     |-> FALSE,
   uploadSession |-> c.uploadSession]

\* The 'data' handler of the CSV stream, row by row.
RECURSIVE ParseRows(_, _, _)
ParseRows(rows, uploadSession, parsed) ==
  IF rows = <<>> THEN parsed
  ELSE LET row == Head(rows)
           commentId == row.comment_id
           commentText == row.comment_text
       IN  IF commentText # <<>> /\ Trim(commentText) # <<>>
           THEN ParseRows(Tail(rows), uploadSession,
                  Append(parsed,
                    [commentId |-> IF commentId # "" THEN commentId
                                   ELSE "comment_" \o NumberToString(Len(parsed) + 1),
                     originalText |-> Trim(commentText),
                     uploadSession |-> uploadSession]))
           ELSE ParseRows(Tail(rows), uploadSession, parsed)

\* A variant of the find that matches on the session alone.
RECURSIVE FindUnprocessedAny(_, _, _)
FindUnprocessedAny(docs, uploadSession, id) ==
  IF id > Len(docs) THEN <<>>
  ELSE IF docs[id].uploadSession = uploadSession
       THEN <<id>> \o FindUnprocessedAny(docs, uploadSession, id + 1)
       ELSE FindUnprocessedAny(docs, uploadSession, id + 1)

\* Comment.find({uploadSession, processed: false}): the _ids, in store order
RECURSIVE FindUnprocessed(_, _, _)
FindUnprocessed(docs, uploadSession, id) ==
  IF id > Len(docs) THEN <<>>
  ELSE IF docs[id].uploadSession = uploadSession /\ ~docs[id].processed
       THEN <<id>> \o FindUnprocessed(docs, uploadSession, id + 1)
       ELSE FindUnprocessed(docs, uploadSession, id + 1)

\* Comment.countDocuments({uploadSession})
CountTotal(docs, uploadSession) ==
  Cardinality({id \in 1..Len(docs) : docs[id].uploadSession = uploadSession})

\* Comment.countDocuments({uploadSession, processed: true})
CountProcessed(docs, uploadSession) ==
  Cardinality({id \in 1..Len(docs) :
                 docs[id].uploadSession = uploadSession /\ docs[id].processed})

TypeOK ==
  /\ now \in 0..MaxClock
  /\ Len(uploads) + Len(runs) + Len(queries) <= 6
  /\ \A id \in 1..Len(comments) : comments[id].sentiment \in {"positive", "negative", "neutral"}

Init ==
  /\ inbox \in Scenarios
  /\ now = 0
  /\ comments = <<>>
  /\ uploads = <<>>
  /\ runs = <<>>
  /\ queries = <<>>
  /\ call = NoCall
  /\ page = NoPage

\* The clock advances.
Tick ==
  /\ now < MaxClock
  /\ now' = now + 1
  /\ UNCHANGED <<call, page, inbox, comments, uploads, runs, queries>>

(***************************************************************************)
(* POST /upload                                                            *)
(***************************************************************************)

NewRun(mode, uploadSession, upload) ==
  [mode |-> mode,
   uploadSession |-> uploadSession,
   upload |-> upload,                 \* the upload that launched it, 0 if none
   pc |-> "fetch",
   fetch |-> "pending",               \* the promise of Comment.find
   promise |-> "pending",             \* the promise the async function returned
   unprocessedComments |-> <<>>,      \* the _ids of the documents found
   fetchedLen |-> 0,                  \* the size of the collection at the find
   i |-> 0,
   items |-> <<>>,
   processedCount |-> 0,
   log |-> "",
   response |-> NoResponse]

\* A variant of the reception that turns away a request without a file only.
UploadReceiveAnyRows(n) ==
  /\ inbox[n].route = "upload"
  /\ inbox' = Remove(inbox, n)
  /\ LET file == inbox[n].file
         uploadSession == IF file.present THEN NumberToString(now) ELSE ""
         parsed == ParseRows(file.rows, uploadSession, <<>>)
     IN  uploads' = Append(uploads,
           [uploadSession |-> uploadSession,
            comments |-> IF file.present THEN parsed ELSE <<>>,
            pc |-> IF ~file.present THEN "done" ELSE "insert",
            ids |-> {},
            response |-> IF ~file.present THEN [status |-> 400] ELSE NoResponse])
  /\ UNCHANGED <<call, page, now, comments, runs, queries>>

\* Lines 15-49: the request is received, the clock is read, the rows are parsed.
UploadReceive(n) ==
  /\ inbox[n].route = "upload"
  /\ inbox' = Remove(inbox, n)
  /\ LET file == inbox[n].file
         uploadSession == IF file.present THEN NumberToString(now) ELSE ""
         parsed == ParseRows(file.rows, uploadSession, <<>>)
         rejected == ~file.present \/ parsed = <<>>
     IN  uploads' = Append(uploads,
           [uploadSession |-> uploadSession,
            comments |-> IF file.present THEN parsed ELSE <<>>,
            pc |-> IF rejected THEN "done" ELSE "insert",
            ids |-> {},
            response |-> IF rejected THEN [status |-> 400] ELSE NoResponse])
  /\ UNCHANGED <<call, page, now, comments, runs, queries>>

\* A variant of the insert's continuation that starts the background run and
\* answers only when that run is over.
UploadInsertResolveAwaiting(u) ==
  /\ uploads[u].pc = "insert"
  /\ comments' = comments \o [k \in 1..Len(uploads[u].comments) |->
                                NewComment(uploads[u].comments[k])]
  /\ uploads' = [uploads EXCEPT ![u].pc = "done",
                   ![u].ids = (Len(comments) + 1)..(Len(comments) + Len(uploads[u].comments))]
  /\ runs' = Append(runs, NewRun("background", uploads[u].uploadSession, u))
  /\ UNCHANGED <<call, page, inbox, now, queries>>

\* Lines 52-62: insertMany resolves, the response is sent, the background run
\* is called and runs up to its find.
UploadInsertResolve(u) ==
  /\ uploads[u].pc = "insert"
  /\ LET savedComments == [k \in 1..Len(uploads[u].comments) |->
                             NewComment(uploads[u].comments[k])]
     IN  /\ comments' = comments \o savedComments
         /\ uploads' = [uploads EXCEPT
               ![u].pc = "done",
               ![u].ids = (Len(comments) + 1)..(Len(comments) + Len(savedComments)),
               ![u].response = [status |-> 200,
                                success |-> TRUE,
                                uploadSession |-> uploads[u].uploadSession,
                                totalComments |-> Len(savedComments)]]
  /\ runs' = Append(runs, NewRun("background", uploads[u].uploadSession, u))
  /\ UNCHANGED <<call, page, inbox, now, queries>>

\* Lines 64-67: insertMany rejects.
UploadInsertReject(u) ==
  /\ uploads[u].pc = "insert"
  /\ uploads' = [uploads EXCEPT ![u].pc = "done", ![u].response = [status |-> 500]]
  /\ UNCHANGED <<call, page, inbox, now, comments, runs, queries>>

(***************************************************************************)
(* The scheduler: POST /process/:uploadSession, processCommentsInBackground*)
(***************************************************************************)

BatchSize(run) ==
  IF run.mode = "ondemand" THEN OnDemandBatchSize ELSE BackgroundBatchSize

\* The positions of unprocessedComments.slice(i, i + batchSize)
Batch(run) ==
  {k \in 1..Len(run.unprocessedComments) : run.i < k /\ k <= run.i + BatchSize(run)}

\* The loop is over: the on-demand handler answers, the background run logs.
Finish(run) ==
  IF run.mode = "ondemand"
  THEN [run EXCEPT !.pc = "done",
                   !.promise = "fulfilled",
                   !.response = [status |-> 200,
                                 success |-> TRUE,
                                 processedCount |-> run.processedCount]]
  ELSE [run EXCEPT !.pc = "done", !.promise = "fulfilled", !.log = "completed"]

\* The loop test and, when it passes, batch.map: every callback of the batch
\* runs up to its first await, so every item's processComment is in flight.
Loop(run) ==
  IF run.i < Len(run.unprocessedComments)
  THEN [run EXCEPT !.pc = "batch",
                   !.items = [k \in DOMAIN run.items |->
                                IF run.i < k /\ k <= run.i + BatchSize(run)
                                THEN [run.items[k] EXCEPT !.pc = "enrich"]
                                ELSE run.items[k]]]
  ELSE Finish(run)

\* A variant of the end of a batch that goes on when the first item of the
\* batch has settled.
AfterSettleOnFirst(run) ==
  IF \A k \in Batch(run) : run.items[k].pc # "settled"
  THEN run
  ELSE IF run.i + BatchSize(run) < Len(run.unprocessedComments)
       THEN [run EXCEPT !.pc = "delay"]
       ELSE Finish(run)

\* A variant of the end of a batch that waits for the delay after the last
\* batch too.
AfterSettleAlwaysDelaying(run) ==
  IF \E k \in Batch(run) : run.items[k].pc # "settled"
  THEN run
  ELSE [run EXCEPT !.pc = "delay"]

\* Promise.all(processingPromises) resolves when the last item of the batch
\* has settled; then the delay starts, or the loop ends.
AfterSettle(run) ==
  IF \E k \in Batch(run) : run.items[k].pc # "settled"
  THEN run
  ELSE IF run.i + BatchSize(run) < Len(run.unprocessedComments)
       THEN [run EXCEPT !.pc = "delay"]
       ELSE Finish(run)

\* A request to POST /process/:uploadSession is received and issues its find.
ProcessRequest(n) ==
  /\ inbox[n].route = "process"
  /\ inbox' = Remove(inbox, n)
  /\ runs' = Append(runs, NewRun("ondemand", inbox[n].uploadSession, 0))
  /\ UNCHANGED <<call, page, now, comments, uploads, queries>>

\* Comment.find resolves.
RunFetchResolve(r) ==
  /\ runs[r].pc = "fetch"
  /\ LET found == FindUnprocessed(comments, runs[r].uploadSession, 1)
         run == [runs[r] EXCEPT
                   !.fetch = "resolved",
                   !.unprocessedComments = found,
                   !.fetchedLen = Len(comments),
                   !.items = [k \in 1..Len(found) |->
                                [pc |-> "waiting", result |-> NoResult, outcome |-> ""]]]
     IN  runs' = [runs EXCEPT ![r] =
           IF run.mode = "ondemand" /\ Len(found) = 0
           THEN [run EXCEPT !.pc = "done",
                            !.promise = "fulfilled",
                            !.response = [status |-> 200, message |-> "No comments to process or all comments already processed"]]
           ELSE Loop(run)]
  /\ UNCHANGED <<call, page, inbox, now, comments, uploads, queries>>

\* Comment.find rejects: the outer catch handles it, so the async function
\* returns normally; the handler answers 500, the background run logs.
RunFetchReject(r) ==
  /\ runs[r].pc = "fetch"
  /\ runs' = [runs EXCEPT ![r] =
       IF runs[r].mode = "ondemand"
       THEN [runs[r] EXCEPT !.pc = "done", !.fetch = "rejected",
                            !.promise = "fulfilled", !.response = [status |-> 500]]
       ELSE [runs[r] EXCEPT !.pc = "done", !.fetch = "rejected",
                            !.promise = "fulfilled", !.log = "error"]]
  /\ UNCHANGED <<call, page, inbox, now, comments, uploads, queries>>

\* processComment settles for item k of run r, the two requests having come
\* back with the given outcomes.
EnrichSettle(r, k, sentimentOutcome, summaryOutcome) ==
  /\ runs[r].pc = "batch"
  /\ k \in Batch(runs[r])
  /\ runs[r].items[k].pc = "enrich"
  /\ LET comment == comments[runs[r].unprocessedComments[k]]
           settled == processComment(comment.originalText, sentimentOutcome, summaryOutcome)
       IN  runs' = [runs EXCEPT ![r] =
             IF settled.status = "fulfilled"
             THEN [runs[r] EXCEPT !.items[k].pc = "update",
                                  !.items[k].result = settled.value]
             ELSE AfterSettle([runs[r] EXCEPT !.items[k].pc = "settled",
                                              !.items[k].outcome = "rejected"])]
  /\ UNCHANGED <<call, page, inbox, now, comments, uploads, queries>>

\* A variant of the update that writes the three values and not the flag.
UpdateResolveUnflagged(r, k) ==
  /\ runs[r].pc = "batch"
  /\ k \in Batch(runs[r])
  /\ runs[r].items[k].pc = "update"
  /\ LET result == runs[r].items[k].result
     IN  comments' = [comments EXCEPT ![runs[r].unprocessedComments[k]] =
           [@ EXCEPT !.sentiment = result.sentiment,
                     !.confidence = result.confidence,
                     !.summary = result.summary]]
  /\ runs' = [runs EXCEPT ![r] =
       AfterSettle([runs[r] EXCEPT !.items[k].pc = "settled",
                                   !.items[k].outcome = "written",
                                   !.processedCount = @ + 1])]
  /\ UNCHANGED <<call, page, inbox, now, uploads, queries>>

\* A variant of the update that, on a document already processed, replaces
\* the sentiment and the summary and keeps the stored confidence.
UpdateResolveMerging(r, k) ==
  /\ runs[r].pc = "batch"
  /\ k \in Batch(runs[r])
  /\ runs[r].items[k].pc = "update"
  /\ LET result == runs[r].items[k].result
         stored == comments[runs[r].unprocessedComments[k]]
     IN  comments' = [comments EXCEPT ![runs[r].unprocessedComments[k]] =
           [@ EXCEPT !.sentiment = result.sentiment,
                     !.confidence = IF stored.processed THEN stored.confidence
                                    ELSE result.confidence,
                     !.summary = result.summary,
                     !.processed = TRUE]]
  /\ runs' = [runs EXCEPT ![r] =
       AfterSettle([runs[r] EXCEPT !.items[k].pc = "settled",
                                   !.items[k].outcome = "written",
                                   !.processedCount = @ + 1])]
  /\ UNCHANGED <<call, page, inbox, now, uploads, queries>>

\* A variant of the update that stores the result's own processed flag.
UpdateResolveAsReported(r, k) ==
  /\ runs[r].pc = "batch"
  /\ k \in Batch(runs[r])
  /\ runs[r].items[k].pc = "update"
  /\ LET result == runs[r].items[k].result
     IN  comments' = [comments EXCEPT ![runs[r].unprocessedComments[k]] =
           [@ EXCEPT !.sentiment = result.sentiment,
                     !.confidence = result.confidence,
                     !.summary = result.summary,
                     !.processed = result.processed]]
  /\ runs' = [runs EXCEPT ![r] =
       AfterSettle([runs[r] EXCEPT !.items[k].pc = "settled",
                                   !.items[k].outcome = "written",
                                   !.processedCount = @ + 1])]
  /\ UNCHANGED <<call, page, inbox, now, uploads, queries>>

\* A variant of the update that writes the result to every record of the
\* session that is not processed yet.
UpdateResolveWholeSession(r, k) ==
  /\ runs[r].pc = "batch"
  /\ k \in Batch(runs[r])
  /\ runs[r].items[k].pc = "update"
  /\ LET result == runs[r].items[k].result
     IN  comments' = [id \in 1..Len(comments) |->
           IF \/ id = runs[r].unprocessedComments[k]
              \/ /\ comments[id].uploadSession = runs[r].uploadSession
                 /\ ~comments[id].processed
           THEN [comments[id] EXCEPT !.sentiment = result.sentiment,
                                     !.confidence = result.confidence,
                                     !.summary = result.summary,
                                     !.processed = TRUE]
           ELSE comments[id]]
  /\ runs' = [runs EXCEPT ![r] =
       AfterSettle([runs[r] EXCEPT !.items[k].pc = "settled",
                                   !.items[k].outcome = "written",
                                   !.processedCount = @ + 1])]
  /\ UNCHANGED <<call, page, inbox, now, uploads, queries>>

\* A variant of the update in which every item of a batch adds one to the
\* value the counter had when the batch started.
UpdateResolveStaleCount(r, k) ==
  /\ runs[r].pc = "batch"
  /\ k \in Batch(runs[r])
  /\ runs[r].items[k].pc = "update"
  /\ LET result == runs[r].items[k].result
     IN  comments' = [comments EXCEPT ![runs[r].unprocessedComments[k]] =
           [@ EXCEPT !.sentiment = result.sentiment,
                     !.confidence = result.confidence,
                     !.summary = result.summary,
                     !.processed = TRUE]]
  /\ runs' = [runs EXCEPT ![r] =
       AfterSettle([runs[r] EXCEPT !.items[k].pc = "settled",
                                   !.items[k].outcome = "written",
                                   !.processedCount =
                                      Cardinality({j \in 1..runs[r].i :
                                                     runs[r].items[j].outcome = "written"}) + 1])]
  /\ UNCHANGED <<call, page, inbox, now, uploads, queries>>

\* A variant of the update whose counter is advanced by the background run
\* only.
UpdateResolveCountingBackground(r, k) ==
  /\ runs[r].pc = "batch"
  /\ k \in Batch(runs[r])
  /\ runs[r].items[k].pc = "update"
  /\ LET result == runs[r].items[k].result
     IN  comments' = [comments EXCEPT ![runs[r].unprocessedComments[k]] =
           [@ EXCEPT !.sentiment = result.sentiment,
                     !.confidence = result.confidence,
                     !.summary = result.summary,
                     !.processed = TRUE]]
  /\ runs' = [runs EXCEPT ![r] =
       AfterSettle([runs[r] EXCEPT !.items[k].pc = "settled",
                                   !.items[k].outcome = "written",
                                   !.processedCount =
                                      IF runs[r].mode = "background" THEN @ + 1 ELSE @])]
  /\ UNCHANGED <<call, page, inbox, now, uploads, queries>>

\* Comment.findByIdAndUpdate resolves for item k of run r.
UpdateResolve(r, k) ==
  /\ runs[r].pc = "batch"
  /\ k \in Batch(runs[r])
  /\ runs[r].items[k].pc = "update"
  /\ LET result == runs[r].items[k].result
     IN  comments' = [comments EXCEPT ![runs[r].unprocessedComments[k]] =
           [@ EXCEPT !.sentiment = result.sentiment,
                     !.confidence = result.confidence,
                     !.summary = result.summary,
                     !.processed = TRUE]]
  /\ runs' = [runs EXCEPT ![r] =
       AfterSettle([runs[r] EXCEPT !.items[k].pc = "settled",
                                   !.items[k].outcome = "written",
                                   !.processedCount = @ + 1])]
  /\ UNCHANGED <<call, page, inbox, now, uploads, queries>>

\* A variant of the failed update with no catch around the item: the
\* rejection reaches the outer catch and the run is over.
UpdateRejectAborting(r, k) ==
  /\ runs[r].pc = "batch"
  /\ k \in Batch(runs[r])
  /\ runs[r].items[k].pc = "update"
  /\ runs' = [runs EXCEPT ![r] =
       IF runs[r].mode = "ondemand"
       THEN [runs[r] EXCEPT !.items[k].pc = "settled", !.items[k].outcome = "failed",
                            !.pc = "done", !.promise = "fulfilled",
                            !.response = [status |-> 500]]
       ELSE [runs[r] EXCEPT !.items[k].pc = "settled", !.items[k].outcome = "failed",
                            !.pc = "done", !.promise = "fulfilled", !.log = "error"]]
  /\ UNCHANGED <<call, page, inbox, now, comments, uploads, queries>>

\* Comment.findByIdAndUpdate rejects for item k of run r: the item's catch.
UpdateReject(r, k) ==
  /\ runs[r].pc = "batch"
  /\ k \in Batch(runs[r])
  /\ runs[r].items[k].pc = "update"
  /\ runs' = [runs EXCEPT ![r] =
       AfterSettle([runs[r] EXCEPT !.items[k].pc = "settled",
                                   !.items[k].outcome = "failed"])]
  /\ UNCHANGED <<call, page, inbox, now, comments, uploads, queries>>

\* A variant of the loop step that advances by one less than the batch size,
\* so the next batch starts with the last record of this one.
DelayElapsedOverlapping(r) ==
  /\ runs[r].pc = "delay"
  /\ runs' = [runs EXCEPT ![r] = Loop([runs[r] EXCEPT !.i = @ + BatchSize(runs[r]) - 1])]
  /\ UNCHANGED <<call, page, inbox, now, comments, uploads, queries>>

\* The delay between two batches is over.
DelayElapsed(r) ==
  /\ runs[r].pc = "delay"
  /\ runs' = [runs EXCEPT ![r] = Loop([runs[r] EXCEPT !.i = @ + BatchSize(runs[r])])]
  /\ UNCHANGED <<call, page, inbox, now, comments, uploads, queries>>

(***************************************************************************)
(* GET /status/:uploadSession and GET /statistics/:uploadSession           *)
(***************************************************************************)

Sentiments == {"positive", "negative", "neutral"}

\* A variant of the aggregation whose $match has the session alone.
AggregateUnfiltered(docs, uploadSession) ==
  LET matched == {id \in 1..Len(docs) : docs[id].uploadSession = uploadSession}
  IN  {[_id |-> docs[id].sentiment,
        count |-> Cardinality({m \in matched : docs[m].sentiment = docs[id].sentiment})] :
         id \in matched}

\* Comment.aggregate([{$match: {uploadSession, processed: true}},
\*                    {$group: {_id: '$sentiment', count: {$sum: 1}}}])
Aggregate(docs, uploadSession) ==
  LET matched == {id \in 1..Len(docs) :
                    docs[id].uploadSession = uploadSession /\ docs[id].processed}
  IN  {[_id |-> docs[id].sentiment,
        count |-> Cardinality({m \in matched : docs[m].sentiment = docs[id].sentiment})] :
         id \in matched}

\* IEEE 754 double arithmetic for Math.round((processed / total) * 100).
\* A positive double is [m |-> its 53 significand bits, first bit 1, f |-> the
\* number of those bits, counted from the last, that lie after the binary
\* point]: the value is m * 2^-f. Zero has no bits.
SignificandBits == 53

DoubleZero == [m |-> <<>>, f |-> 0]

\* Body(value), value being computed once
Bind(value, Body(_)) == CHOOSE result \in {Body(v) : v \in {value}} : TRUE

\* b^e modulo m
RECURSIVE PowerMod(_, _, _)
PowerMod(b, e, m) ==
  IF e = 0 THEN 1 % m
  ELSE Bind(PowerMod(b, e \div 2, m),
            LAMBDA half : IF e % 2 = 0 THEN (half * half) % m
                          ELSE (((half * half) % m) * b) % m)

\* What is left of rem / den, times 2^n, after its first n bits after the
\* binary point, for 0 <= rem < den
RemainderAfter(rem, den, n) == (rem * PowerMod(2, n, den)) % den

\* The first n bits of rem / den after the binary point
DivideBits(rem, den, n) ==
  SubSeq([k \in 1..n |-> IF 2 * RemainderAfter(rem, den, k - 1) >= den THEN 1 ELSE 0],
         1, n)

\* The number of zero bits of rem / den between the binary point and its
\* first one bit, for 0 < rem < den
RECURSIVE LeadingZeros(_, _)
LeadingZeros(rem, den) ==
  IF 2 * rem >= den THEN 0 ELSE 1 + LeadingZeros(2 * rem, den)

\* bits + 1, with the same number of bits; all ones gives all zeros
Increment(bits) ==
  Bind(bits, LAMBDA b :
    Bind(IF \A k \in 1..Len(b) : b[k] = 1 THEN 0
         ELSE CHOOSE k \in 1..Len(b) :
                b[k] = 0 /\ \A j \in (k + 1)..Len(b) : b[j] = 1,
         LAMBDA last :
           SubSeq([k \in 1..Len(b) |->
                     IF k < last THEN b[k] ELSE IF k = last THEN 1 ELSE 0],
                  1, Len(b))))

\* Round to nearest, ties to even: bits, whose last f bits lie after the
\* binary point, followed by the discarded bits guard and sticky
RoundToDouble(bits, f, guard, sticky) ==
  Bind(bits, LAMBDA b :
    IF guard = 1 /\ (sticky = 1 \/ b[Len(b)] = 1)
    THEN IF \A k \in 1..Len(b) : b[k] = 1
         THEN [m |-> SubSeq([k \in 1..Len(b) |-> IF k = 1 THEN 1 ELSE 0], 1, Len(b)),
               f |-> f - 1]
         ELSE [m |-> Increment(b), f |-> f]
    ELSE [m |-> b, f |-> f])

\* The bits of a positive integer, first bit 1
RECURSIVE IntegerBits(_)
IntegerBits(n) ==
  IF n = 0 THEN <<>> ELSE IntegerBits(n \div 2) \o <<n % 2>>

\* The integer a sequence of bits stands for
RECURSIVE BitsValue(_)
BitsValue(bits) ==
  Bind(bits, LAMBDA b :
    IF b = <<>> THEN 0
    ELSE 2 * BitsValue(SubSeq(b, 1, Len(b) - 1)) + b[Len(b)])

\* num / den in double arithmetic, for integers num >= 0 and den > 0
Divide(num, den) ==
  IF num = 0 THEN DoubleZero
  ELSE Bind(IntegerBits(num \div den), LAMBDA whole :
         Bind(IF whole = <<>> THEN LeadingZeros(num % den, den) ELSE 0, LAMBDA zeros :
           Bind(DivideBits(num % den, den, zeros + SignificandBits - Len(whole) + 1),
                LAMBDA fraction :
                  RoundToDouble(whole \o SubSeq(fraction, zeros + 1, Len(fraction) - 1),
                                Len(fraction) - 1,
                                fraction[Len(fraction)],
                                IF RemainderAfter(num % den, den, Len(fraction)) > 0
                                THEN 1 ELSE 0))))

\* Arithmetic on long integers goes by limbs of LimbBits bits: a sequence
\* of bits is cut into limbs from its last bit on.
LimbBits == 12
LimbBase == 4096

\* n as LimbBits bits, for 0 <= n < LimbBase
LimbToBits(n) ==
  Bind(IntegerBits(n), LAMBDA bits :
    SubSeq([k \in 1..LimbBits |->
              IF k <= LimbBits - Len(bits) THEN 0 ELSE bits[k - (LimbBits - Len(bits))]],
           1, LimbBits))

\* bits * c + carry for a small positive integer c: the bits of the product,
\* with zero bits in front
RECURSIVE TimesBits(_, _, _)
TimesBits(bits, c, carry) ==
  Bind(<<bits, carry>>, LAMBDA args :
    IF args[1] = <<>> THEN LimbToBits(args[2])
    ELSE Bind(IF Len(args[1]) > LimbBits THEN Len(args[1]) - LimbBits ELSE 0, LAMBDA cut :
           Bind(c * BitsValue(SubSeq(args[1], cut + 1, Len(args[1]))) + args[2], LAMBDA t :
             TimesBits(SubSeq(args[1], 1, cut), c, t \div LimbBase)
               \o LimbToBits(t % LimbBase))))

\* bits without the zero bits in front
StripZeros(bits) ==
  Bind(bits, LAMBDA b :
    IF \A k \in 1..Len(b) : b[k] = 0 THEN <<>>
    ELSE SubSeq(b, CHOOSE k \in 1..Len(b) : b[k] = 1 /\ \A j \in 1..(k - 1) : b[j] = 0,
                Len(b)))

\* x * c in double arithmetic, for an integer c with 0 < c < LimbBase
Times(x, c) ==
  Bind(x, LAMBDA d :
    IF d.m = <<>> THEN DoubleZero
    ELSE Bind(StripZeros(TimesBits(d.m, c, 0)), LAMBDA product :
           IF Len(product) = SignificandBits THEN [m |-> product, f |-> d.f]
           ELSE RoundToDouble(SubSeq(product, 1, SignificandBits),
                              d.f - (Len(product) - SignificandBits),
                              product[SignificandBits + 1],
                              IF \E k \in (SignificandBits + 2)..Len(product) : product[k] = 1
                              THEN 1 ELSE 0)))

\* Math.round(x) for a double x >= 0: the nearest integer, halves rounded up
MathRound(x) ==
  Bind(x, LAMBDA d :
    IF d.m = <<>> \/ d.f > Len(d.m) THEN 0
    ELSE BitsValue(SubSeq(d.m, 1, Len(d.m) - d.f))
           + (IF d.f >= 1 THEN d.m[Len(d.m) - d.f + 1] ELSE 0))

\* sentimentStats.forEach(...) over a counter that starts at 0
StatCount(sentimentStats, sentiment) ==
  IF \E stat \in sentimentStats : stat._id = sentiment
  THEN (CHOOSE stat \in sentimentStats : stat._id = sentiment).count
  ELSE 0

\* The bodies of the two answers, the fields of "status" and of "statistics"
\* given next to "success".
StatusResponse(total, processed) ==
  [status |-> 200,
   success |-> TRUE,
   total |-> total,
   processed |-> processed,
   isComplete |-> (total > 0 /\ total = processed),
   progress |-> IF total > 0 THEN MathRound(Times(Divide(processed, total), 100)) ELSE 0]

StatisticsResponse(total, processed, sentimentStats) ==
  [status |-> 200,
   success |-> TRUE,
   total |-> total,
   processed |-> processed,
   positive |-> StatCount(sentimentStats, "positive"),
   negative |-> StatCount(sentimentStats, "negative"),
   neutral |-> StatCount(sentimentStats, "neutral")]

\* The documents a store query over a session matches.
SessionIds(docs, uploadSession) ==
  {id \in 1..Len(docs) : docs[id].uploadSession = uploadSession}

ProcessedIds(docs, uploadSession) ==
  {id \in SessionIds(docs, uploadSession) : docs[id].processed}

\* A request is received and issues its store queries, all at once.
\* runsDone, after and seen record, for the properties, which runs of the
\* session were over and which requests were answered when the request
\* arrived, and which documents each store query matched.
QueryRequest(n) ==
  /\ inbox[n].route \in {"status", "statistics"}
  /\ inbox' = Remove(inbox, n)
  /\ queries' = Append(queries,
       [kind |-> inbox[n].route,
        uploadSession |-> inbox[n].uploadSession,
        pending |-> IF inbox[n].route = "status" THEN {"total", "processed"}
                    ELSE {"total", "processed", "sentimentStats"},
        total |-> 0,
        processed |-> 0,
        sentimentStats |-> {},
        runsDone |-> {r \in 1..Len(runs) :
                        runs[r].pc = "done" /\ runs[r].uploadSession = inbox[n].uploadSession},
        seen |-> [total |-> {}, processed |-> {}, sentimentStats |-> {}],
        after |-> {q \in 1..Len(queries) : queries[q].response # NoResponse},
        response |-> NoResponse])
  /\ UNCHANGED <<call, page, now, comments, uploads, runs>>

\* Promise.all resolves with the last answer: the handler responds.
Respond(query) ==
  IF query.pending # {} THEN query
  ELSE [query EXCEPT !.response =
          IF query.kind = "status"
          THEN StatusResponse(query.total, query.processed)
          ELSE StatisticsResponse(query.total, query.processed, query.sentimentStats)]

\* One store query of request q is answered.
QueryRead(q, name) ==
  /\ name \in queries[q].pending
  /\ LET session == queries[q].uploadSession
         answered ==
           CASE name = "total" ->
                  [queries[q] EXCEPT !.total = CountTotal(comments, session),
                                     !.seen.total = SessionIds(comments, session)]
             [] name = "processed" ->
                  [queries[q] EXCEPT !.processed = CountProcessed(comments, session),
                                     !.seen.processed = ProcessedIds(comments, session)]
             [] name = "sentimentStats" ->
                  [queries[q] EXCEPT !.sentimentStats = Aggregate(comments, session),
                                     !.seen.sentimentStats =
                                        {<<id, comments[id].sentiment>> :
                                           id \in ProcessedIds(comments, session)}]
     IN  queries' = [queries EXCEPT ![q] =
                       Respond([answered EXCEPT !.pending = @ \ {name}])]
  /\ UNCHANGED <<call, page, inbox, now, comments, uploads, runs>>

\* One store query of request q rejects: Promise.all rejects, the catch answers.
QueryReject(q) ==
  /\ queries[q].pending # {}
  /\ queries' = [queries EXCEPT ![q].pending = {}, ![q].response = [status |-> 500]]
  /\ UNCHANGED <<call, page, inbox, now, comments, uploads, runs>>

(***************************************************************************)
(* UploadPage: handleFileUpload and pollProcessingStatus                   *)
(***************************************************************************)

\* data.success of a parsed answer
DataSuccess(response) ==
  "success" \in DOMAIN response /\ response.success

\* pollProcessingStatus(sessionId) up to its first await: the request is sent.
PollStart(p, sessionId) ==
  [p EXCEPT !.pc = "poll", !.polls = @ + 1, !.query = Len(queries) + 1]

\* handleFileUpload(file) up to its first await.
HandleFileUpload(file) ==
  /\ page.pc = "idle"
  /\ page' = [page EXCEPT !.pc = "upload", !.isProcessing = TRUE,
                          !.processingStatus = NoResponse]
  /\ inbox' = Append(inbox, UploadRequest(file))
  /\ UNCHANGED <<call, now, comments, uploads, runs, queries>>

\* The answer to the upload arrives: on 200 the session is kept and the
\* first poll is made, otherwise the catch shows the error.
HandleFileUploadAnswered ==
  /\ page.pc = "upload"
  /\ uploads # <<>>
  /\ uploads[1].response # NoResponse
  /\ IF uploads[1].response.status = 200
     THEN /\ page' = PollStart([page EXCEPT !.uploadSession = uploads[1].response.uploadSession],
                               uploads[1].response.uploadSession)
          /\ inbox' = Append(inbox, StatusRequest(uploads[1].response.uploadSession))
     ELSE /\ page' = [page EXCEPT !.pc = "error", !.isProcessing = FALSE]
          /\ inbox' = inbox
  /\ UNCHANGED <<call, now, comments, uploads, runs, queries>>

\* The answer to a poll arrives and parses as JSON.
PollAnswered ==
  /\ page.pc = "poll"
  /\ page.query <= Len(queries)
  /\ queries[page.query].response # NoResponse
  /\ LET data == queries[page.query].response
     IN  page' = IF DataSuccess(data)
                 THEN IF data.isComplete
                      THEN [page EXCEPT !.pc = "complete", !.isProcessing = FALSE,
                                        !.processingStatus = data]
                      ELSE [page EXCEPT !.pc = "timer", !.processingStatus = data]
                 ELSE [page EXCEPT !.pc = "stopped"]
  /\ UNCHANGED <<call, inbox, now, comments, uploads, runs, queries>>

\* The fetch of a poll rejects, the request or its answer being lost: the
\* catch schedules the next poll.
PollFailed ==
  /\ page.pc = "poll"
  /\ page' = [page EXCEPT !.pc = "timer"]
  /\ inbox' = IF page.query > Len(queries) THEN <<>> ELSE inbox
  /\ UNCHANGED <<call, now, comments, uploads, runs, queries>>

\* The timer set by setTimeout fires: pollProcessingStatus is called again.
PollTimer ==
  /\ page.pc = "timer"
  /\ page.polls < MaxPolls
  /\ page' = PollStart(page, page.uploadSession)
  /\ inbox' = Append(inbox, StatusRequest(page.uploadSession))
  /\ UNCHANGED <<call, now, comments, uploads, runs, queries>>

(***************************************************************************)
(* The system                                                              *)
(***************************************************************************)

Next ==
  \/ Tick
  \/ \E n \in 1..Len(inbox) : UploadReceive(n)
  \/ \E u \in 1..Len(uploads) : UploadInsertResolve(u)
  \/ \E u \in 1..Len(uploads) : UploadInsertReject(u)
  \/ \E n \in 1..Len(inbox) : ProcessRequest(n)
  \/ \E r \in 1..Len(runs) : RunFetchResolve(r)
  \/ \E r \in 1..Len(runs) : RunFetchReject(r)
  \/ \E r \in 1..Len(runs) : \E k \in 1..Len(runs[r].items) :
       \E sentimentOutcome \in RunSentimentOutcomes :
         \E summaryOutcome \in RunSummaryOutcomes :
           EnrichSettle(r, k, sentimentOutcome, summaryOutcome)
  \/ \E r \in 1..Len(runs) : \E k \in 1..Len(runs[r].items) : UpdateResolve(r, k)
  \/ \E r \in 1..Len(runs) : \E k \in 1..Len(runs[r].items) : UpdateReject(r, k)
  \/ \E r \in 1..Len(runs) : DelayElapsed(r)
  \/ \E n \in 1..Len(inbox) : QueryRequest(n)
  \/ \E q \in 1..Len(queries) : \E name \in queries[q].pending : QueryRead(q, name)
  \/ \E q \in 1..Len(queries) : QueryReject(q)

Spec == Init /\ [][Next]_vars

\* The same server while both remote models are unreachable: every request to
\* them ends in a transport failure.
InitOffline ==
  /\ inbox \in OfflineScenarios
  /\ now = 0
  /\ comments = <<>>
  /\ uploads = <<>>
  /\ runs = <<>>
  /\ queries = <<>>
  /\ call = NoCall
  /\ page = NoPage

NextOffline ==
  \/ Tick
  \/ \E n \in 1..Len(inbox) : UploadReceive(n)
  \/ \E u \in 1..Len(uploads) : UploadInsertResolve(u)
  \/ \E u \in 1..Len(uploads) : UploadInsertReject(u)
  \/ \E n \in 1..Len(inbox) : ProcessRequest(n)
  \/ \E r \in 1..Len(runs) : RunFetchResolve(r)
  \/ \E r \in 1..Len(runs) : RunFetchReject(r)
  \/ \E r \in 1..Len(runs) : \E k \in 1..Len(runs[r].items) :
       EnrichSettle(r, k, TransportFailure, TransportFailure)
  \/ \E r \in 1..Len(runs) : \E k \in 1..Len(runs[r].items) : UpdateResolve(r, k)
  \/ \E r \in 1..Len(runs) : \E k \in 1..Len(runs[r].items) : UpdateReject(r, k)
  \/ \E r \in 1..Len(runs) : DelayElapsed(r)
  \/ \E n \in 1..Len(inbox) : QueryRequest(n)
  \/ \E q \in 1..Len(queries) : \E name \in queries[q].pending : QueryRead(q, name)
  \/ \E q \in 1..Len(queries) : QueryReject(q)

SpecOffline == InitOffline /\ [][NextOffline]_vars

\* The intake and the enrichment of one record, the two remote models
\* answering in every sampled way, unexpected errors included.
EnrichScenarios ==
  { <<UploadRequest(File(<<Row("", text)>>))>> :
      text \in {TextGreat, TextBad, TextPlain, TextLong} }

InitEnrich ==
  /\ inbox \in EnrichScenarios
  /\ now = 0
  /\ comments = <<>>
  /\ uploads = <<>>
  /\ runs = <<>>
  /\ queries = <<>>
  /\ call = NoCall
  /\ page = NoPage

NextEnrich ==
  \/ Tick
  \/ \E n \in 1..Len(inbox) : UploadReceive(n)
  \/ \E u \in 1..Len(uploads) : UploadInsertResolve(u)
  \/ \E r \in 1..Len(runs) : RunFetchResolve(r)
  \/ \E r \in 1..Len(runs) : \E k \in 1..Len(runs[r].items) :
       \E sentimentOutcome \in SentimentOutcomes \cup {Escaped} :
         \E summaryOutcome \in SummaryOutcomes \cup {Escaped} :
           EnrichSettle(r, k, sentimentOutcome, summaryOutcome)
  \/ \E r \in 1..Len(runs) : \E k \in 1..Len(runs[r].items) : UpdateResolve(r, k)
  \/ \E r \in 1..Len(runs) : \E k \in 1..Len(runs[r].items) : UpdateReject(r, k)

SpecEnrich == InitEnrich /\ [][NextEnrich]_vars

\* A client that uploads twice and asks for the status twice, while the store
\* answers every query and the remote models are unreachable.
PollingScenario ==
  <<UploadRequest(FileOne), UploadRequest(FileOne),
    StatusRequest("0"), StatusRequest("0")>>

InitPolling ==
  /\ inbox = PollingScenario
  /\ now = 0
  /\ comments = <<>>
  /\ uploads = <<>>
  /\ runs = <<>>
  /\ queries = <<>>
  /\ call = NoCall
  /\ page = NoPage

NextPolling ==
  \/ Tick
  \/ \E n \in 1..Len(inbox) : UploadReceive(n)
  \/ \E u \in 1..Len(uploads) : UploadInsertResolve(u)
  \/ \E r \in 1..Len(runs) : RunFetchResolve(r)
  \/ \E r \in 1..Len(runs) : \E k \in 1..Len(runs[r].items) :
       EnrichSettle(r, k, TransportFailure, TransportFailure)
  \/ \E r \in 1..Len(runs) : \E k \in 1..Len(runs[r].items) : UpdateResolve(r, k)
  \/ \E n \in 1..Len(inbox) : QueryRequest(n)
  \/ \E q \in 1..Len(queries) : \E name \in queries[q].pending : QueryRead(q, name)

SpecPolling == InitPolling /\ [][NextPolling]_vars

\* An upload of four comments and a request to process its session, which
\* the on-demand run may serve while the background run is under way; the
\* remote models are unreachable and a store update may fail.
ModesScenario == <<UploadRequest(FileFour), ProcessingRequest("0")>>

InitModes ==
  /\ inbox = ModesScenario
  /\ now = 0
  /\ comments = <<>>
  /\ uploads = <<>>
  /\ runs = <<>>
  /\ queries = <<>>
  /\ call = NoCall
  /\ page = NoPage

NextModes ==
  \/ \E n \in 1..Len(inbox) : UploadReceive(n)
  \/ \E u \in 1..Len(uploads) : UploadInsertResolve(u)
  \/ \E n \in 1..Len(inbox) : ProcessRequest(n)
  \/ \E r \in 1..Len(runs) : RunFetchResolve(r)
  \/ \E r \in 1..Len(runs) : \E k \in 1..Len(runs[r].items) :
       EnrichSettle(r, k, TransportFailure, TransportFailure)
  \/ \E r \in 1..Len(runs) : \E k \in 1..Len(runs[r].items) : UpdateResolve(r, k)
  \/ \E r \in 1..Len(runs) : \E k \in 1..Len(runs[r].items) : UpdateReject(r, k)
  \/ \E r \in 1..Len(runs) : DelayElapsed(r)

SpecModes == InitModes /\ [][NextModes]_vars

\* An upload of seven comments and a request to process its session, made
\* once the background run is over, so that the on-demand run works on the
\* records whose update failed in the background run; the remote models are
\* unreachable.
BatchesScenario == <<UploadRequest(FileSeven), ProcessingRequest("0")>>

InitBatches ==
  /\ inbox = BatchesScenario
  /\ now = 0
  /\ comments = <<>>
  /\ uploads = <<>>
  /\ runs = <<>>
  /\ queries = <<>>
  /\ call = NoCall
  /\ page = NoPage

NextBatches ==
  \/ \E n \in 1..Len(inbox) : UploadReceive(n)
  \/ \E u \in 1..Len(uploads) : UploadInsertResolve(u)
  \/ \E n \in 1..Len(inbox) :
       /\ runs # <<>>
       /\ \A r \in 1..Len(runs) : runs[r].pc = "done"
       /\ ProcessRequest(n)
  \/ \E r \in 1..Len(runs) : RunFetchResolve(r)
  \/ \E r \in 1..Len(runs) : \E k \in 1..Len(runs[r].items) :
       EnrichSettle(r, k, TransportFailure, TransportFailure)
  \/ \E r \in 1..Len(runs) : \E k \in 1..Len(runs[r].items) : UpdateResolve(r, k)
  \/ \E r \in 1..Len(runs) : \E k \in 1..Len(runs[r].items) : UpdateReject(r, k)
  \/ \E r \in 1..Len(runs) : DelayElapsed(r)

SpecBatches == InitBatches /\ [][NextBatches]_vars

\* The upload page and the server: a file is chosen, uploaded, and the page
\* polls the status of its session; the remote models are unreachable, and
\* the store may fail.
PageFiles == {FileOne, FileTwo}

InitPage ==
  /\ inbox = <<>>
  /\ now = 0
  /\ comments = <<>>
  /\ uploads = <<>>
  /\ runs = <<>>
  /\ queries = <<>>
  /\ call = NoCall
  /\ page = NoPage

NextPage ==
  \/ \E file \in PageFiles : HandleFileUpload(file)
  \/ HandleFileUploadAnswered
  \/ PollAnswered
  \/ PollFailed
  \/ PollTimer
  \/ \E n \in 1..Len(inbox) : UploadReceive(n)
  \/ \E u \in 1..Len(uploads) : UploadInsertResolve(u)
  \/ \E u \in 1..Len(uploads) : UploadInsertReject(u)
  \/ \E r \in 1..Len(runs) : RunFetchResolve(r)
  \/ \E r \in 1..Len(runs) : RunFetchReject(r)
  \/ \E r \in 1..Len(runs) : \E k \in 1..Len(runs[r].items) :
       EnrichSettle(r, k, TransportFailure, TransportFailure)
  \/ \E r \in 1..Len(runs) : \E k \in 1..Len(runs[r].items) : UpdateResolve(r, k)
  \/ \E r \in 1..Len(runs) : \E k \in 1..Len(runs[r].items) : UpdateReject(r, k)
  \/ \E n \in 1..Len(inbox) : QueryRequest(n)
  \/ \E q \in 1..Len(queries) : \E name \in queries[q].pending : QueryRead(q, name)
  \/ \E q \in 1..Len(queries) : QueryReject(q)

SpecPage == InitPage /\ [][NextPage]_vars

\* The upload page and the server when every request of the page is answered,
\* the insert and every update succeed, and every call to the remote models,
\* every other store operation and every timer comes to an end: a find or a
\* count settles by resolving or by rejecting.
NextPageLive ==
  \/ \E file \in PageFiles : HandleFileUpload(file)
  \/ HandleFileUploadAnswered
  \/ PollAnswered
  \/ PollTimer
  \/ \E n \in 1..Len(inbox) : UploadReceive(n)
  \/ \E u \in 1..Len(uploads) : UploadInsertResolve(u)
  \/ \E r \in 1..Len(runs) : RunFetchResolve(r)
  \/ \E r \in 1..Len(runs) : RunFetchReject(r)
  \/ \E r \in 1..Len(runs) : \E k \in 1..Len(runs[r].items) :
       EnrichSettle(r, k, TransportFailure, TransportFailure)
  \/ \E r \in 1..Len(runs) : \E k \in 1..Len(runs[r].items) : UpdateResolve(r, k)
  \/ \E n \in 1..Len(inbox) : QueryRequest(n)
  \/ \E q \in 1..Len(queries) : \E name \in queries[q].pending : QueryRead(q, name)
  \/ \E q \in 1..Len(queries) : QueryReject(q)

FairPage ==
  /\ WF_vars(\E file \in PageFiles : HandleFileUpload(file))
  /\ WF_vars(HandleFileUploadAnswered)
  /\ WF_vars(PollAnswered)
  /\ WF_vars(PollTimer)
  /\ WF_vars(\E n \in 1..Len(inbox) : UploadReceive(n) \/ QueryRequest(n))
  /\ WF_vars(\E u \in 1..Len(uploads) : UploadInsertResolve(u))
  /\ WF_vars(\E r \in 1..Len(runs) : RunFetchResolve(r) \/ RunFetchReject(r))
  /\ WF_vars(\E r \in 1..Len(runs) : \E k \in 1..Len(runs[r].items) :
               \/ EnrichSettle(r, k, TransportFailure, TransportFailure)
               \/ UpdateResolve(r, k))
  /\ WF_vars(\E q \in 1..Len(queries) :
               \/ \E name \in queries[q].pending : QueryRead(q, name)
               \/ QueryReject(q))

SpecPageLive == InitPage /\ [][NextPageLive]_vars /\ FairPage

\* Direct calls of the methods of AIProcessor, on sampled texts and remote
\* answers; the pipeline is idle.
TextTwoPositive == <<"g","o","o","d"," ","a","n","d"," ","g","r","e","a","t">>
TextTie == <<"g","o","o","d"," ","b","u","t"," ","b","a","d">>
TextManyPositive == <<"G","O","O","D"," ","g","r","e","a","t"," ","l","o","v","e"," ","h","a","p","p","y">>
TextBadge == <<"a"," ","b","a","d","g","e">>
TextAbc == <<"A","."," ","B","."," ","C",".">>
TextAb == <<"A","."," ","B",".">>
TextMixed == <<"H","i","!"," ","O","k","?"," ","Y","e","s","."," ","N","o",".">>

\* Lists of comments for the word cloud: none; one comment; two comments; two
\* comments with 55 different words between them, w054 four times and w055
\* three times.
TextCloud ==
  <<
    "T","h","e"," ","s","e","r","v","i","c","e"," ","w","a","s"," ","g","r",
    "e","a","t",","," ","G","R","E","A","T"," ","s","e","r","v","i","c","e",
    "!"," ","A","b","o","u","t"," ","t","i","m","e","."
  >>

TextManyA ==
  <<
    "w","0","0","1"," ","w","0","0","2"," ","w","0","0","3"," ","w","0","0",
    "4"," ","w","0","0","5"," ","w","0","0","6"," ","w","0","0","7"," ","w",
    "0","0","8"," ","w","0","0","9"," ","w","0","1","0"," ","w","0","1","1",
    " ","w","0","1","2"," ","w","0","1","3"," ","w","0","1","4"," ","w","0",
    "1","5"," ","w","0","1","6"," ","w","0","1","7"," ","w","0","1","8"," ",
    "w","0","1","9"," ","w","0","2","0"," ","w","0","2","1"," ","w","0","2",
    "2"," ","w","0","2","3"," ","w","0","2","4"," ","w","0","2","5"," ","w",
    "0","2","6"," ","w","0","2","7"," ","w","0","2","8"," ","w","0","2","9",
    " ","w","0","3","0"
  >>

TextManyB ==
  <<
    "w","0","3","1"," ","w","0","3","2"," ","w","0","3","3"," ","w","0","3",
    "4"," ","w","0","3","5"," ","w","0","3","6"," ","w","0","3","7"," ","w",
    "0","3","8"," ","w","0","3","9"," ","w","0","4","0"," ","w","0","4","1",
    " ","w","0","4","2"," ","w","0","4","3"," ","w","0","4","4"," ","w","0",
    "4","5"," ","w","0","4","6"," ","w","0","4","7"," ","w","0","4","8"," ",
    "w","0","4","9"," ","w","0","5","0"," ","w","0","5","1"," ","w","0","5",
    "2"," ","w","0","5","3"," ","w","0","5","4"," ","w","0","5","5"," ","w",
    "0","5","5"," ","w","0","5","5"," ","w","0","5","4"," ","w","0","5","4",
    " ","w","0","5","4"," ","b","a","d"
  >>

Doc(text) == [originalText |-> text]

CloudInputs ==
  { <<>>,
    <<Doc(TextCloud)>>,
    <<Doc(TextGreat), Doc(TextCloud)>>,
    <<Doc(TextManyA), Doc(TextManyB)>> }

ClientTexts ==
  { TextGreat, TextBad, Trim(TextPlain), TextLong, TextTwoPositive, TextTie,
    TextManyPositive, TextBadge, TextAbc, TextAb, TextMixed }

InitClient ==
  /\ inbox = <<>>
  /\ now = 0
  /\ comments = <<>>
  /\ uploads = <<>>
  /\ runs = <<>>
  /\ queries = <<>>
  /\ call = NoCall
  /\ page = NoPage

CallAnalyzeSentiment(text, outcome) ==
  /\ call' = [method |-> "analyzeSentiment", text |-> text, outcome |-> outcome,
              returned |-> analyzeSentiment(text, outcome)]
  /\ UNCHANGED <<page, inbox, now, comments, uploads, runs, queries>>

CallSummarizeText(text, outcome) ==
  /\ call' = [method |-> "summarizeText", text |-> text, outcome |-> outcome,
              returned |-> summarizeText(text, outcome)]
  /\ UNCHANGED <<page, inbox, now, comments, uploads, runs, queries>>

CallFallbackSentimentAnalysis(text) ==
  /\ call' = [method |-> "fallbackSentimentAnalysis", text |-> text,
              returned |-> fallbackSentimentAnalysis(text)]
  /\ UNCHANGED <<page, inbox, now, comments, uploads, runs, queries>>

CallFallbackSummarization(text) ==
  /\ call' = [method |-> "fallbackSummarization", text |-> text,
              returned |-> fallbackSummarization(text)]
  /\ UNCHANGED <<page, inbox, now, comments, uploads, runs, queries>>

CallGenerateWordCloud(docs) ==
  /\ call' = [method |-> "generateWordCloud", comments |-> docs,
              returned |-> generateWordCloud(docs)]
  /\ UNCHANGED <<page, inbox, now, comments, uploads, runs, queries>>

NextClient ==
  \/ \E text \in ClientTexts : \E outcome \in SentimentOutcomes :
       CallAnalyzeSentiment(text, outcome)
  \/ \E text \in ClientTexts : \E outcome \in SummaryOutcomes :
       CallSummarizeText(text, outcome)
  \/ \E text \in ClientTexts : CallFallbackSentimentAnalysis(text)
  \/ \E text \in ClientTexts : CallFallbackSummarization(text)
  \/ \E docs \in CloudInputs : CallGenerateWordCloud(docs)

SpecClient == InitClient /\ [][NextClient]_vars

\* The answer of GET /status/:uploadSession for every pair of counts the two
\* countDocuments queries can resolve with, up to MaxTotal records.
InitStatus ==
  /\ inbox = <<>>
  /\ now = 0
  /\ comments = <<>>
  /\ uploads = <<>>
  /\ runs = <<>>
  /\ queries = <<>>
  /\ page = NoPage
  /\ call \in {[method |-> "", total |-> total, processed |-> processed] :
                 total \in 0..MaxTotal, processed \in 0..MaxTotal}
  /\ call.processed <= call.total

CallGetStatus ==
  /\ call.method = ""
  /\ call' = [method |-> "getStatus", total |-> call.total, processed |-> call.processed,
              returned |-> StatusResponse(call.total, call.processed)]
  /\ UNCHANGED <<page, inbox, now, comments, uploads, runs, queries>>

NextStatus == CallGetStatus

SpecStatus == InitStatus /\ [][NextStatus]_vars

(***************************************************************************)
(* Properties                                                              *)
(***************************************************************************)

\* C1, as stated: whenever a scheduler run for a session has completed and
\* none of its store updates failed, a status request for that session made
\* afterwards answers isComplete = true and progress = 100.
C1_StatusAfterRun ==
  \A q \in 1..Len(queries) :
    (queries[q].kind = "status" /\ queries[q].response.status = 200) =>
      \A r \in queries[q].runsDone :
        ( /\ runs[r].log # "error"
          /\ runs[r].response.status # 500
          /\ \A k \in 1..Len(runs[r].items) : runs[r].items[k].outcome # "failed" )
        => /\ queries[q].response.isComplete
           /\ queries[q].response.progress = 100

\* C1, amended: the same, for a session that has at least one record and
\* whose records were all in the store when the run issued its find.
C1_StatusAfterRunOverStoredSession ==
  \A q \in 1..Len(queries) :
    (queries[q].kind = "status" /\ queries[q].response.status = 200) =>
      \A r \in queries[q].runsDone :
        ( /\ runs[r].log # "error"
          /\ runs[r].response.status # 500
          /\ \A k \in 1..Len(runs[r].items) : runs[r].items[k].outcome # "failed"
          /\ SessionIds(comments, queries[q].uploadSession) # {}
          /\ \A id \in SessionIds(comments, queries[q].uploadSession) :
               id <= runs[r].fetchedLen )
        => /\ queries[q].response.isComplete
           /\ queries[q].response.progress = 100

\* A status request that arrived after a run had written a record, none of
\* its updates having failed, is answered complete.
C1_Witness ==
  \E q \in 1..Len(queries) :
    /\ queries[q].kind = "status"
    /\ queries[q].response.status = 200
    /\ queries[q].response.isComplete
    /\ queries[q].response.progress = 100
    /\ \E r \in queries[q].runsDone :
         /\ runs[r].processedCount >= 1
         /\ \A k \in 1..Len(runs[r].items) : runs[r].items[k].outcome = "written"
         /\ \A id \in SessionIds(comments, queries[q].uploadSession) :
              id <= runs[r].fetchedLen

\* C2: when a run is over, every record of its snapshot has had its update
\* attempted, and is either processed with the sentiment, confidence and
\* summary of an enrich result computed for it and written, or unprocessed
\* with the three values as inserted; a failed update for one record neither
\* marks it processed nor stops the others of its batch and of later batches.
C2_SnapshotSettled ==
  \A r \in 1..Len(runs) :
    runs[r].pc = "done" =>
      \A k \in 1..Len(runs[r].items) :
        LET id == runs[r].unprocessedComments[k]
            item == runs[r].items[k]
            doc == comments[id]
        IN  /\ item.outcome \in {"written", "failed"}
            /\ item.outcome = "written" => doc.processed
            /\ IF doc.processed
               THEN \E r2 \in 1..Len(runs) : \E k2 \in 1..Len(runs[r2].items) :
                      /\ runs[r2].unprocessedComments[k2] = id
                      /\ runs[r2].items[k2].outcome = "written"
                      /\ doc.sentiment = runs[r2].items[k2].result.sentiment
                      /\ doc.confidence = runs[r2].items[k2].result.confidence
                      /\ doc.summary = runs[r2].items[k2].result.summary
               ELSE doc = NewComment(doc)

\* A run of two batches is over: the update of its first record failed and
\* left it as inserted, the second record of that batch and the record of the
\* next batch are written.
C2_Witness ==
  \E r \in 1..Len(runs) :
    /\ runs[r].pc = "done"
    /\ Len(runs[r].items) > BatchSize(runs[r])
    /\ runs[r].items[1].outcome = "failed"
    /\ comments[runs[r].unprocessedComments[1]] =
         NewComment(comments[runs[r].unprocessedComments[1]])
    /\ runs[r].items[2].outcome = "written"
    /\ comments[runs[r].unprocessedComments[2]].processed
    /\ runs[r].items[Len(runs[r].items)].outcome = "written"
    /\ comments[runs[r].unprocessedComments[Len(runs[r].items)]].processed

\* C3, as stated: in every reachable state a record with processed = true has
\* none of its values at the schema default: its summary is not '' and it is
\* not neutral with confidence 0, whatever the remote model answered.
C3_ProcessedNotDefault ==
  \A id \in 1..Len(comments) :
    comments[id].processed =>
      /\ comments[id].summary # <<>>
      /\ ~(comments[id].sentiment = "neutral" /\ comments[id].confidence = 0)

\* C4: whatever the outcomes of the two remote requests made for a record,
\* processComment resolves with a result, so the update of the record is
\* attempted with that result and the record stays unprocessed only when the
\* update itself failed.
C4_EnrichResolves ==
  \A r \in 1..Len(runs) : \A k \in 1..Len(runs[r].items) :
    LET item == runs[r].items[k]
    IN  /\ item.outcome # "rejected"
        /\ item.pc \in {"update", "settled"} =>
             /\ item.result # NoResult
             /\ item.result.sentiment \in Sentiments
        /\ item.pc = "settled" => item.outcome \in {"written", "failed"}
        /\ (item.pc = "settled" /\ ~comments[runs[r].unprocessedComments[k]].processed)
             => item.outcome = "failed"

\* A record of 100 characters or more, for which both remote requests failed,
\* is written with the local sentiment and the local summary.
C4_Witness ==
  \E id \in 1..Len(comments) :
    /\ comments[id].processed
    /\ Len(comments[id].originalText) >= SummarizeMinLength
    /\ comments[id].summary = fallbackSummarization(comments[id].originalText)
    /\ comments[id].summary # comments[id].originalText
    /\ comments[id].sentiment = fallbackSentimentAnalysis(comments[id].originalText).sentiment
    /\ comments[id].confidence = fallbackSentimentAnalysis(comments[id].originalText).confidence

\* C5, as stated: the records of a session all come from the one upload that
\* created the session; no later upload adds records to it.
C5_OneIntakePerSession ==
  \A id1, id2 \in 1..Len(comments) :
    comments[id1].uploadSession = comments[id2].uploadSession =>
      \E u \in 1..Len(uploads) : {id1, id2} \subseteq uploads[u].ids

\* C6, as stated: a status answer has total = the number of records of the
\* session, processed = the number of those with processed = true, isComplete
\* = (total > 0 and total = processed), progress = round(100 * processed /
\* total) when total > 0 and 0 otherwise; so 0 <= progress <= 100 and a
\* session with no records is not reported complete.
C6_StatusAnswer ==
  \A q \in 1..Len(queries) :
    (queries[q].kind = "status" /\ queries[q].response.status = 200) =>
      LET answer == queries[q].response
      IN  /\ answer.total = Cardinality(queries[q].seen.total)
          /\ answer.processed = Cardinality(queries[q].seen.processed)
          /\ answer.isComplete = (answer.total > 0 /\ answer.total = answer.processed)
          /\ answer.progress = IF answer.total > 0
                               THEN (200 * answer.processed + answer.total)
                                      \div (2 * answer.total)
                               ELSE 0
          /\ answer.progress >= 0
          /\ answer.progress <= 100
          /\ answer.total = 0 => ~answer.isComplete

\* C7: a statistics answer counts each sentiment over the records the
\* aggregation found processed, an unprocessed record counting for none and a
\* sentiment no processed record has counting 0; for a session with no
\* records every count of the answer is 0.
C7_StatisticsAnswer ==
  \A q \in 1..Len(queries) :
    (queries[q].kind = "statistics" /\ queries[q].response.status = 200) =>
      LET answer == queries[q].response
          grouped == queries[q].seen.sentimentStats
      IN  /\ answer.positive = Cardinality({e \in grouped : e[2] = "positive"})
          /\ answer.negative = Cardinality({e \in grouped : e[2] = "negative"})
          /\ answer.neutral = Cardinality({e \in grouped : e[2] = "neutral"})
          /\ \A id \in queries[q].seen.total :
               (\A e \in grouped : e[1] # id) =>
                 answer.positive + answer.negative + answer.neutral
                   <= Cardinality(SessionIds(comments, queries[q].uploadSession) \ {id})
          /\ SessionIds(comments, queries[q].uploadSession) = {} =>
               answer = [status |-> 200, success |-> TRUE, total |-> 0,
                         processed |-> 0, positive |-> 0, negative |-> 0,
                         neutral |-> 0]

\* A statistics answer over a session of two records, one of them processed
\* and negative when the aggregation ran, the other still unprocessed and
\* neutral by default: negative is 1, neutral and positive are 0.
C7_Witness ==
  \E q \in 1..Len(queries) :
    /\ queries[q].kind = "statistics"
    /\ queries[q].response.status = 200
    /\ queries[q].response.total = 2
    /\ Cardinality(queries[q].seen.sentimentStats) = 1
    /\ queries[q].response.negative = 1
    /\ queries[q].response.neutral = 0
    /\ queries[q].response.positive = 0

\* C8, as stated: a run whose find resolves on a session with no unprocessed
\* record enriches nothing, updates nothing, leaves the records as they are
\* and reports a processed count of zero.
C8_NothingToProcessReportsZero ==
  [][\A r \in 1..Len(runs) :
       ( /\ runs[r].pc = "fetch"
         /\ runs'[r].pc # "fetch"
         /\ runs'[r].log # "error"
         /\ runs'[r].response.status # 500
         /\ \A id \in SessionIds(comments, runs[r].uploadSession) :
              comments[id].processed )
       => /\ runs'[r].pc = "done"
          /\ runs'[r].items = <<>>
          /\ comments' = comments
          /\ runs'[r].processedCount = 0
          /\ IF runs[r].mode = "ondemand"
             THEN /\ "processedCount" \in DOMAIN runs'[r].response
                  /\ runs'[r].response.processedCount = 0
             ELSE runs'[r].log = "completed"]_vars

\* C8, amended: such a run enriches nothing, updates nothing and leaves the
\* records as they are; the background run logs its completion with a count
\* of zero, the on-demand handler answers 200 with a message and no count.
C8_NothingToProcessIsNoOp ==
  [][\A r \in 1..Len(runs) :
       ( /\ runs[r].pc = "fetch"
         /\ runs'[r].pc # "fetch"
         /\ runs'[r].log # "error"
         /\ runs'[r].response.status # 500
         /\ \A id \in SessionIds(comments, runs[r].uploadSession) :
              comments[id].processed )
       => /\ runs'[r].pc = "done"
          /\ runs'[r].items = <<>>
          /\ comments' = comments
          /\ runs'[r].processedCount = 0
          /\ IF runs[r].mode = "ondemand"
             THEN /\ DOMAIN runs'[r].response = {"status", "message"}
                  /\ runs'[r].response.status = 200
             ELSE runs'[r].log = "completed"]_vars

\* An on-demand run over a session whose records were all processed when its
\* find resolved is over, with no item and the message for an answer.
C8_Witness ==
  \E r \in 1..Len(runs) :
    /\ runs[r].mode = "ondemand"
    /\ runs[r].pc = "done"
    /\ runs[r].items = <<>>
    /\ runs[r].response.status = 200
    /\ "message" \in DOMAIN runs[r].response
    /\ SessionIds(comments, runs[r].uploadSession) # {}
    /\ \A id \in SessionIds(comments, runs[r].uploadSession) : id <= runs[r].fetchedLen

\* C9: from the moment the background run of an upload exists, and so before
\* it enriches or updates anything and whatever becomes of it, the upload has
\* been answered with success, its session and the number of records
\* inserted; the answer, once sent, never changes.
C9_AnsweredBeforeBackgroundRun ==
  /\ [](\A r \in 1..Len(runs) :
          runs[r].mode = "background" =>
            uploads[runs[r].upload].response =
              [status |-> 200,
               success |-> TRUE,
               uploadSession |-> runs[r].uploadSession,
               totalComments |-> Cardinality(uploads[runs[r].upload].ids)])
  /\ [][\A u \in 1..Len(uploads) :
          uploads[u].response # NoResponse => uploads'[u].response = uploads[u].response]_vars

\* A background run is over, every update of it having failed, and the
\* answer to its upload is the success sent at the insert.
C9_Witness ==
  \E r \in 1..Len(runs) :
    /\ runs[r].mode = "background"
    /\ runs[r].pc = "done"
    /\ Len(runs[r].items) >= 2
    /\ \A k \in 1..Len(runs[r].items) : runs[r].items[k].outcome = "failed"
    /\ uploads[runs[r].upload].response.status = 200
    /\ uploads[runs[r].upload].response.totalComments = Len(runs[r].items)

\* C10: a record written by two runs holds, after any interleaving of the two
\* updates, the sentiment, confidence and summary of one of the two results,
\* all three from the same result, and processed = true.
C10_OverlappingWrites ==
  \A r1, r2 \in 1..Len(runs) :
    \A k1 \in 1..Len(runs[r1].items) : \A k2 \in 1..Len(runs[r2].items) :
      ( /\ r1 # r2
        /\ runs[r1].unprocessedComments[k1] = runs[r2].unprocessedComments[k2]
        /\ runs[r1].items[k1].outcome = "written"
        /\ runs[r2].items[k2].outcome = "written" )
      => LET doc == comments[runs[r1].unprocessedComments[k1]]
             Holds(result) == /\ doc.sentiment = result.sentiment
                              /\ doc.confidence = result.confidence
                              /\ doc.summary = result.summary
         IN  /\ doc.processed
             /\ Holds(runs[r1].items[k1].result) \/ Holds(runs[r2].items[k2].result)

\* A record written by the background run and by the on-demand run, the two
\* results differing in sentiment and in confidence.
C10_Witness ==
  \E r1, r2 \in 1..Len(runs) :
    \E k1 \in 1..Len(runs[r1].items) : \E k2 \in 1..Len(runs[r2].items) :
      /\ runs[r1].mode = "background"
      /\ runs[r2].mode = "ondemand"
      /\ runs[r1].unprocessedComments[k1] = runs[r2].unprocessedComments[k2]
      /\ runs[r1].items[k1].outcome = "written"
      /\ runs[r2].items[k2].outcome = "written"
      /\ runs[r1].items[k1].result.sentiment # runs[r2].items[k2].result.sentiment
      /\ runs[r1].items[k1].result.confidence # runs[r2].items[k2].result.confidence

\* C11, as stated: over any execution the only write a record receives is
\* the one that takes it from processed = false to processed = true; a record
\* that is processed is never written again.
C11_WrittenOnce ==
  [][\A id \in 1..Len(comments) :
       comments'[id] # comments[id] => ~comments[id].processed]_vars

\* C11, amended: a record changes only by the update of one item of one run,
\* which sets its sentiment, confidence and summary and processed = true; a
\* run updates each record of its snapshot at most once; and a record that is
\* already processed is written again only by a run other than the one that
\* wrote it, both having selected it while it was unprocessed.
C11_WrittenOncePerRun ==
  [][\A id \in 1..Len(comments) :
       comments'[id] # comments[id] =>
         /\ comments'[id].processed
         /\ comments'[id] = [comments[id] EXCEPT
                               !.sentiment = comments'[id].sentiment,
                               !.confidence = comments'[id].confidence,
                               !.summary = comments'[id].summary,
                               !.processed = TRUE]
         /\ \E r \in 1..Len(runs) : \E k \in 1..Len(runs[r].items) :
              /\ runs[r].unprocessedComments[k] = id
              /\ runs[r].items[k].outcome = ""
              /\ runs'[r].items[k].outcome = "written"
              /\ \A k2 \in 1..Len(runs[r].items) :
                   k2 # k => runs[r].unprocessedComments[k2] # id
              /\ comments[id].processed =>
                   \E r2 \in 1..Len(runs) : \E k2 \in 1..Len(runs[r2].items) :
                     /\ r2 # r
                     /\ runs[r2].unprocessedComments[k2] = id
                     /\ runs[r2].items[k2].outcome = "written"]_vars

\* The only run of a session is over, in two batches, and every record of
\* its snapshot was written by it.
C11_Witness ==
  /\ Len(runs) = 1
  /\ runs[1].pc = "done"
  /\ Len(runs[1].items) > BatchSize(runs[1])
  /\ \A k \in 1..Len(runs[1].items) :
       /\ runs[1].items[k].outcome = "written"
       /\ comments[runs[1].unprocessedComments[k]].processed

\* C12, as stated: no step takes a record from processed = true back to
\* false, and of two status answers for the same session, the second to a
\* request made after the first was answered, the later one has a processed
\* count and a progress greater than or equal to the earlier one's.
C12_StatusNeverDecreases ==
  /\ [][\A id \in 1..Len(comments) :
          comments[id].processed => comments'[id].processed]_vars
  /\ [](\A q1, q2 \in 1..Len(queries) :
          ( /\ q1 \in queries[q2].after
            /\ queries[q1].kind = "status"
            /\ queries[q2].kind = "status"
            /\ queries[q1].uploadSession = queries[q2].uploadSession
            /\ queries[q1].response.status = 200
            /\ queries[q2].response.status = 200 )
          => /\ queries[q2].response.processed >= queries[q1].response.processed
             /\ queries[q2].response.progress >= queries[q1].response.progress)

\* C13, as stated: when the find of a run fails, the run is over with no
\* record enriched or written by it, and its failure reaches its caller: the
\* on-demand handler answers with an error, the promise of the background run
\* rejects or the upload that started it is answered with an error.
C13_FetchFailureSurfaced ==
  \A r \in 1..Len(runs) :
    runs[r].fetch = "rejected" =>
      /\ runs[r].pc = "done"
      /\ runs[r].items = <<>>
      /\ runs[r].processedCount = 0
      /\ IF runs[r].mode = "ondemand"
         THEN runs[r].response.status = 500
         ELSE \/ runs[r].promise = "rejected"
              \/ uploads[runs[r].upload].response.status >= 400

\* C14, as stated: whatever the text and whatever the sentiment model
\* answers, the result of processComment has its sentiment among positive,
\* negative and neutral and its confidence between 0 and 1 (0 and 100
\* hundredths).
C14_ResultInRange ==
  \A r \in 1..Len(runs) : \A k \in 1..Len(runs[r].items) :
    runs[r].items[k].result # NoResult =>
      /\ runs[r].items[k].result.sentiment \in Sentiments
      /\ runs[r].items[k].result.confidence >= 0
      /\ runs[r].items[k].result.confidence <= 100

\* C15, as stated: analyzeSentiment returns what fallbackSentimentAnalysis
\* returns for the text whenever the request fails in transport, the response
\* is not 2xx, or the payload is malformed: not an array, an empty array, or
\* an array whose first element is not a list of label/score entries.
C15_FallbackOnEveryFailure ==
  LET Malformed(body) ==
        \/ body.type # "array"
        \/ body.items = <<>>
        \/ body.items[1].type # "array"
        \/ body.items[1].items = <<>>
        \/ \E k \in 1..Len(body.items[1].items) : body.items[1].items[k].type # "object"
      Failed(outcome) ==
        \/ outcome.kind = "rejected"
        \/ ~outcome.ok
        \/ Malformed(outcome.body)
  IN  (call.method = "analyzeSentiment" /\ Failed(call.outcome)) =>
        call.returned = Fulfilled(fallbackSentimentAnalysis(call.text))

\* C16: with p and n the numbers of positive and of negative keywords that
\* occur in the lowercased text, fallbackSentimentAnalysis returns positive
\* when p > n, negative when n > p and neutral with confidence 0.5 when p = n;
\* the confidence of a winning sentiment is min(0.8, 0.5 + 0.1 * winning
\* count), never above 0.8, and two positive keywords with no negative one
\* give positive with confidence 0.7 (confidences in hundredths).
C16_KeywordScorer ==
  call.method = "fallbackSentimentAnalysis" =>
    LET lowered == ToLowerCase(call.text)
        p == Cardinality({k \in 1..Len(positiveWords) : Includes(lowered, positiveWords[k])})
        n == Cardinality({k \in 1..Len(negativeWords) : Includes(lowered, negativeWords[k])})
        capped(count) == IF 50 + 10 * count < 80 THEN 50 + 10 * count ELSE 80
    IN  /\ p > n => call.returned = [sentiment |-> "positive", confidence |-> capped(p)]
        /\ n > p => call.returned = [sentiment |-> "negative", confidence |-> capped(n)]
        /\ p = n => call.returned = [sentiment |-> "neutral", confidence |-> 50]
        /\ (p = 2 /\ n = 0) => call.returned = [sentiment |-> "positive", confidence |-> 70]
        /\ call.returned.confidence <= 80

\* The scorer was called on "good and great", two positive keywords and no
\* negative one, and returned positive with confidence 0.7.
C16_Witness ==
  /\ call.method = "fallbackSentimentAnalysis"
  /\ call.text = TextTwoPositive
  /\ call.returned = [sentiment |-> "positive", confidence |-> 70]

\* C17, as stated: on a text of three or more sentences
\* fallbackSummarization returns the first two sentences joined with ". " and
\* ended with a period, so "A. B. C." gives exactly "A. B."; on a text of at
\* most two sentences it returns the text unchanged.
C17_FirstTwoSentences ==
  call.method = "fallbackSummarization" =>
    LET sentences == NonBlank(SplitSentences(call.text))
    IN  /\ Len(sentences) <= 2 => call.returned = call.text
        /\ Len(sentences) >= 3 =>
             call.returned = Trim(sentences[1]) \o <<".", " ">> \o Trim(sentences[2]) \o <<".">>
        /\ call.text = <<"A", ".", " ", "B", ".", " ", "C", ".">> =>
             call.returned = <<"A", ".", " ", "B", ".">>

\* C18: when processComment takes its error path, its result is neutral,
\* confidence 0, the original text for a summary and processed = false; the
\* scheduler attempts the update with it all the same, a successful update
\* stores these values with processed = true, and the error reaches neither
\* the run nor the upload that started it.
C18_ErrorPathWritten ==
  \A r \in 1..Len(runs) : \A k \in 1..Len(runs[r].items) :
    LET item == runs[r].items[k]
        doc == comments[runs[r].unprocessedComments[k]]
    IN  (item.result # NoResult /\ ~item.result.processed) =>
          /\ item.result = [sentiment |-> "neutral", confidence |-> 0,
                            summary |-> doc.originalText, processed |-> FALSE]
          /\ item.pc \in {"update", "settled"}
          /\ item.pc = "settled" => item.outcome \in {"written", "failed"}
          /\ item.outcome = "written" =>
               doc = [NewComment(doc) EXCEPT !.summary = doc.originalText,
                                             !.processed = TRUE]
          /\ runs[r].log # "error"
          /\ uploads[runs[r].upload].response.status = 200

\* A record whose enrichment took the error path is stored as processed,
\* neutral, confidence 0, its own text for a summary, and its run completed.
C18_Witness ==
  \E r \in 1..Len(runs) : \E k \in 1..Len(runs[r].items) :
    /\ runs[r].items[k].result # NoResult
    /\ ~runs[r].items[k].result.processed
    /\ runs[r].items[k].outcome = "written"
    /\ comments[runs[r].unprocessedComments[k]].processed
    /\ comments[runs[r].unprocessedComments[k]].summary =
         comments[runs[r].unprocessedComments[k]].originalText
    /\ runs[r].log = "completed"

\* C19: generateWordCloud returns at most 50 entries, none with a text of
\* length 3 or less or a text in the stopword set, each with a count equal to
\* the number of occurrences of its text as a word over the texts of all the
\* comments given (lowercased, punctuation removed), in order of
\* non-increasing count; for no comment it returns the empty list.
C19_WordCloud ==
  call.method = "generateWordCloud" =>
    LET cloud == call.returned
        Cleaned(d) == StripPunctuation(ToLowerCase(call.comments[d].originalText))
        At(text, k, word) ==
          /\ k + Len(word) - 1 <= Len(text)
          /\ SubSeq(text, k, k + Len(word) - 1) = word
          /\ k = 1 \/ text[k - 1] \in WhiteSpace
          /\ k + Len(word) - 1 = Len(text) \/ text[k + Len(word)] \in WhiteSpace
        Occurrences(word) ==
          Cardinality(UNION {{<<d, k>> : k \in {j \in 1..Len(Cleaned(d)) : At(Cleaned(d), j, word)}} :
                               d \in 1..Len(call.comments)})
    IN  /\ Len(cloud) <= 50
        /\ \A n \in 1..Len(cloud) :
             /\ Len(cloud[n].text) > 3
             /\ cloud[n].text \notin stopWords
             /\ cloud[n].value = Occurrences(cloud[n].text)
        /\ \A n \in 1..(Len(cloud) - 1) : cloud[n].value >= cloud[n + 1].value
        /\ call.comments = <<>> => cloud = <<>>

\* The word cloud of two comments with 55 different words has 50 entries,
\* first the word that occurs four times, counted over both comments.
C19_Witness ==
  /\ call.method = "generateWordCloud"
  /\ Len(call.comments) = 2
  /\ Len(call.returned) = 50
  /\ call.returned[1] = [text |-> <<"w", "0", "5", "4">>, value |-> 4]
  /\ call.returned[2].value = 3
  /\ call.returned[50].value = 1

\* C20: an upload without a file, or with a file whose rows all have an empty
\* or blank comment text, is answered 400 in the step that receives it, a step
\* that leaves the store and the runs as they were; afterwards that upload
\* has inserted no record and no run was started by it.
C20_EmptyUploadRejected ==
  /\ [][\A n \in 1..Len(inbox) :
          ( /\ inbox[n].route = "upload"
            /\ \/ ~inbox[n].file.present
               \/ \A k \in 1..Len(inbox[n].file.rows) :
                    \A j \in 1..Len(inbox[n].file.rows[k].comment_text) :
                      inbox[n].file.rows[k].comment_text[j] \in WhiteSpace
            /\ inbox' = Remove(inbox, n)
            /\ Len(uploads') = Len(uploads) + 1 )
          => /\ uploads'[Len(uploads')].response.status = 400
             /\ uploads'[Len(uploads')].comments = <<>>
             /\ comments' = comments
             /\ runs' = runs]_vars
  /\ [](\A u \in 1..Len(uploads) :
          uploads[u].comments = <<>> =>
            /\ uploads[u].response.status = 400
            /\ uploads[u].ids = {}
            /\ \A r \in 1..Len(runs) : runs[r].upload # u)

\* A file whose only row has a blank comment text was uploaded and turned
\* away: the store is empty and there is no run.
C20_Witness ==
  \E u \in 1..Len(uploads) :
    /\ uploads[u].uploadSession # ""
    /\ uploads[u].comments = <<>>
    /\ uploads[u].response.status = 400
    /\ comments = <<>>
    /\ runs = <<>>
    /\ inbox = <<>>

\* C21: no two records of one session have the same commentId.
C21_CommentIdUniqueInSession ==
  \A a, b \in 1..Len(comments) :
    (a # b /\ comments[a].uploadSession = comments[b].uploadSession)
      => comments[a].commentId # comments[b].commentId

\* C22, as stated: an on-demand run and a background run that fetched the same
\* records and had the same enrichment result and the same update outcome for
\* each of them have the same processed count, reported by both, and leave
\* each record as that outcome determines; and every run of either mode whose
\* fetch resolved ends with a processed count, the number of its updates that
\* succeeded.
C22_IdenticalSemantics ==
  /\ \A a, b \in 1..Len(runs) :
       ( /\ runs[a].mode = "ondemand" /\ runs[b].mode = "background"
         /\ runs[a].pc = "done" /\ runs[b].pc = "done"
         /\ runs[a].fetch = "resolved" /\ runs[b].fetch = "resolved"
         /\ runs[a].unprocessedComments = runs[b].unprocessedComments
         /\ \A k \in 1..Len(runs[a].items) :
              /\ runs[a].items[k].outcome = runs[b].items[k].outcome
              /\ runs[a].items[k].result = runs[b].items[k].result )
       => /\ runs[a].processedCount = runs[b].processedCount
          /\ \A k \in 1..Len(runs[a].items) :
               LET stored == comments[runs[a].unprocessedComments[k]]
                   result == runs[a].items[k].result
               IN  IF runs[a].items[k].outcome = "written"
                   THEN /\ stored.processed
                        /\ stored.sentiment = result.sentiment
                        /\ stored.confidence = result.confidence
                        /\ stored.summary = result.summary
                   ELSE /\ ~stored.processed
                        /\ stored.sentiment = "neutral"
                        /\ stored.confidence = 0
                        /\ stored.summary = <<>>
  /\ \A r \in 1..Len(runs) :
       (runs[r].pc = "done" /\ runs[r].fetch = "resolved") =>
         LET written == Cardinality({k \in 1..Len(runs[r].items) :
                                       runs[r].items[k].outcome = "written"})
         IN  IF runs[r].mode = "ondemand"
             THEN /\ "processedCount" \in DOMAIN runs[r].response
                  /\ runs[r].response.processedCount = written
             ELSE /\ runs[r].log = "completed"
                  /\ runs[r].processedCount = written

\* C22, amended: the same, but an on-demand run that fetched no record ends
\* with the message for an answer and no processed count.
C22_IdenticalOverRecords ==
  /\ \A a, b \in 1..Len(runs) :
       ( /\ runs[a].mode = "ondemand" /\ runs[b].mode = "background"
         /\ runs[a].pc = "done" /\ runs[b].pc = "done"
         /\ runs[a].fetch = "resolved" /\ runs[b].fetch = "resolved"
         /\ runs[a].unprocessedComments = runs[b].unprocessedComments
         /\ \A k \in 1..Len(runs[a].items) :
              /\ runs[a].items[k].outcome = runs[b].items[k].outcome
              /\ runs[a].items[k].result = runs[b].items[k].result )
       => /\ runs[a].processedCount = runs[b].processedCount
          /\ \A k \in 1..Len(runs[a].items) :
               LET stored == comments[runs[a].unprocessedComments[k]]
                   result == runs[a].items[k].result
               IN  IF runs[a].items[k].outcome = "written"
                   THEN /\ stored.processed
                        /\ stored.sentiment = result.sentiment
                        /\ stored.confidence = result.confidence
                        /\ stored.summary = result.summary
                   ELSE /\ ~stored.processed
                        /\ stored.sentiment = "neutral"
                        /\ stored.confidence = 0
                        /\ stored.summary = <<>>
  /\ \A r \in 1..Len(runs) :
       (runs[r].pc = "done" /\ runs[r].fetch = "resolved") =>
         LET written == Cardinality({k \in 1..Len(runs[r].items) :
                                       runs[r].items[k].outcome = "written"})
         IN  IF runs[r].mode = "ondemand"
             THEN IF runs[r].unprocessedComments = <<>>
                  THEN DOMAIN runs[r].response = {"status", "message"}
                  ELSE /\ "processedCount" \in DOMAIN runs[r].response
                       /\ runs[r].response.processedCount = written
             ELSE /\ runs[r].log = "completed"
                  /\ runs[r].processedCount = written

\* Both runs fetched the four records, the update of the same one record
\* failed in both, and both end with a processed count of three: the
\* on-demand run after one batch, the background run after two.
C22_Witness ==
  \E a, b \in 1..Len(runs) :
    /\ runs[a].mode = "ondemand" /\ runs[b].mode = "background"
    /\ runs[a].pc = "done" /\ runs[b].pc = "done"
    /\ Len(runs[a].unprocessedComments) = 4
    /\ runs[a].unprocessedComments = runs[b].unprocessedComments
    /\ \A k \in 1..4 : runs[a].items[k].outcome = runs[b].items[k].outcome
    /\ runs[a].items[2].outcome = "failed"
    /\ runs[a].response.processedCount = 3
    /\ runs[b].processedCount = 3
    /\ runs[b].i = 3
    /\ runs[a].i = 0

\* C23: a run over a snapshot of n >= 1 records with batch size B works in
\* ceil(n/B) batches of consecutive records: a batch starts at a multiple of
\* B below n and holds the B records from there on, or the records that are
\* left; the run waits between two batches only, each wait being followed by
\* the batch B records further, and ends after the batch that starts at
\* B * (ceil(n/B) - 1), with every record settled.
C23_BatchesAndDelays ==
  /\ [](\A r \in 1..Len(runs) :
          LET run == runs[r]
              n == Len(run.unprocessedComments)
              B == BatchSize(run)
              last == B * (((n + B - 1) \div B) - 1)
          IN  (run.fetch = "resolved" /\ n >= 1) =>
                /\ run.i % B = 0
                /\ run.i <= last
                /\ Batch(run) = {k \in 1..n : run.i + 1 <= k /\ k <= run.i + B}
                /\ Cardinality(Batch(run)) = IF run.i = last THEN n - last ELSE B
                /\ \A k \in 1..n : k <= run.i => run.items[k].pc = "settled"
                /\ \A k \in 1..n : k > run.i + B => run.items[k].pc = "waiting"
                /\ run.pc = "batch" => \A k \in Batch(run) : run.items[k].pc # "waiting"
                /\ run.pc = "delay" =>
                     /\ run.i < last
                     /\ \A k \in Batch(run) : run.items[k].pc = "settled"
                /\ run.pc = "done" =>
                     /\ run.i = last
                     /\ \A k \in 1..n : run.items[k].pc = "settled")
  /\ [][\A r \in 1..Len(runs) :
          /\ (runs[r].pc = "delay" /\ runs'[r] # runs[r]) =>
               /\ runs'[r].pc = "batch"
               /\ runs'[r].i = runs[r].i + BatchSize(runs[r])
          /\ (runs[r].pc = "batch" /\ runs'[r].pc # "batch") =>
               /\ runs'[r].i = runs[r].i
               /\ runs'[r].pc \in {"delay", "done"}
          /\ (runs[r].pc = "batch" /\ runs'[r].pc = "batch") =>
               runs'[r].i = runs[r].i]_vars

\* The background run over seven records is over after the batches that
\* start at 0, 3 and 6, the last of one record; all its updates failed, and
\* the on-demand run over the same seven records is over after the batches
\* that start at 0 and 5, the last of two records.
C23_Witness ==
  \E r \in 1..Len(runs) :
    /\ runs[r].mode = "background"
    /\ Len(runs[r].unprocessedComments) = 7
    /\ runs[r].pc = "done"
    /\ runs[r].i = 6
    /\ Batch(runs[r]) = {7}
    /\ \A k \in 1..7 : runs[r].items[k].pc = "settled"
    /\ \A k \in 1..7 : runs[r].items[k].outcome = "failed"
    /\ \E a \in 1..Len(runs) :
         /\ runs[a].mode = "ondemand"
         /\ Len(runs[a].unprocessedComments) = 7
         /\ runs[a].pc = "done"
         /\ runs[a].i = 5
         /\ Batch(runs[a]) = {6, 7}

\* C24: within one run the batches follow one another: a processComment call
\* or an update is under way only for records of the current batch, while
\* every record of an earlier batch has settled and no record of a later one
\* was started, so at most B calls are in flight; a call starts only when
\* the find resolves or a delay elapses, every item of the batches before
\* having settled; and the step that settles an item, with a failure or not,
\* leaves the other items of the run as they are and ends the batch only if
\* they have all settled.
C24_BatchesInSequence ==
  /\ [](\A r \in 1..Len(runs) :
          LET run == runs[r]
              n == Len(run.items)
              inFlight == {k \in 1..n : run.items[k].pc \in {"enrich", "update"}}
          IN  /\ inFlight \subseteq Batch(run)
              /\ Cardinality(inFlight) <= BatchSize(run)
              /\ Cardinality({k \in 1..n : run.items[k].pc = "enrich"}) <= BatchSize(run)
              /\ inFlight # {} =>
                   /\ run.pc = "batch"
                   /\ \A k \in 1..n : k <= run.i => run.items[k].pc = "settled"
                   /\ \A k \in 1..n : k > run.i + BatchSize(run) => run.items[k].pc = "waiting")
  /\ [][\A r \in 1..Len(runs) : \A k \in 1..Len(runs'[r].items) :
          /\ ( /\ runs'[r].items[k].pc = "enrich"
               /\ Len(runs[r].items) < k \/ runs[r].items[k].pc # "enrich" )
             => /\ runs[r].pc \in {"fetch", "delay"}
                /\ \A j \in 1..Len(runs[r].items) :
                     runs[r].items[j].pc \in {"settled", "waiting"}
                /\ \A j \in 1..(k - 1) :
                     runs'[r].items[j].pc = "settled" \/ j \in Batch(runs'[r])
          /\ ( /\ k <= Len(runs[r].items)
               /\ runs[r].items[k].pc # "settled"
               /\ runs'[r].items[k].pc = "settled" )
             => /\ \A j \in 1..Len(runs[r].items) :
                     j # k => runs'[r].items[j] = runs[r].items[j]
                /\ runs'[r].pc # "batch" <=>
                     \A j \in Batch(runs[r]) : runs'[r].items[j].pc = "settled"]_vars

\* In the second batch of the background run, the update of one record has
\* failed, another record was written after that, and the call for the third
\* is still under way; the seventh record is waiting.
C24_Witness ==
  \E r \in 1..Len(runs) :
    /\ runs[r].mode = "background"
    /\ runs[r].pc = "batch"
    /\ runs[r].i = 3
    /\ runs[r].items[4].outcome = "failed"
    /\ runs[r].items[5].outcome = "written"
    /\ runs[r].items[6].pc = "enrich"
    /\ runs[r].items[7].pc = "waiting"

\* C25: the find of a run yields the records of its session that are in the
\* store and not processed at that moment, and the run keeps that list to
\* its end; every item it enriches is a record of the list, and every step
\* that changes a stored record is the update of an item of some run, on a
\* record of that run's list: a record that entered the store after the find
\* is not written by the run.
C25_WorksOnSnapshot ==
  /\ [](\A r \in 1..Len(runs) :
          /\ Len(runs[r].items) = Len(runs[r].unprocessedComments)
          /\ \A k \in 1..Len(runs[r].unprocessedComments) :
               /\ runs[r].unprocessedComments[k] \in 1..runs[r].fetchedLen
               /\ comments[runs[r].unprocessedComments[k]].uploadSession =
                    runs[r].uploadSession)
  /\ [][\A r \in 1..Len(runs) :
          /\ (runs[r].fetch = "pending" /\ runs'[r].fetch = "resolved") =>
               /\ {runs'[r].unprocessedComments[k] :
                     k \in 1..Len(runs'[r].unprocessedComments)} =
                  {id \in 1..Len(comments) :
                     /\ comments[id].uploadSession = runs[r].uploadSession
                     /\ ~comments[id].processed}
               /\ runs'[r].fetchedLen = Len(comments)
          /\ runs[r].fetch # "pending" =>
               /\ runs'[r].unprocessedComments = runs[r].unprocessedComments
               /\ runs'[r].fetchedLen = runs[r].fetchedLen]_vars
  /\ [][\A id \in 1..Len(comments) :
          comments'[id] # comments[id] =>
            \E r \in 1..Len(runs) : \E k \in 1..Len(runs[r].unprocessedComments) :
              /\ runs[r].unprocessedComments[k] = id
              /\ runs[r].items[k].pc = "update"
              /\ runs'[r].items[k].outcome = "written"
              /\ \A other \in 1..Len(comments) :
                   other # id => comments'[other] = comments[other]]_vars

\* A run is over that found one record and wrote it; a second record of
\* the same session, stored after the find, is still not processed.
C25_Witness ==
  \E r \in 1..Len(runs) :
    /\ runs[r].pc = "done"
    /\ runs[r].unprocessedComments = <<1>>
    /\ runs[r].fetchedLen = 1
    /\ runs[r].items[1].outcome = "written"
    /\ Len(comments) = 2
    /\ comments[2].uploadSession = runs[r].uploadSession
    /\ comments[1].processed
    /\ ~comments[2].processed

\* C26: the counter of a run is, at every moment, the number of records of its
\* snapshot whose update has succeeded in this run, so it never exceeds the
\* size of the snapshot; it goes up by one in the step in which an update
\* succeeds and stays as it is in every other step; and the count the run
\* reports at its end, in the answer of the on-demand handler or in the log
\* of the background run, is that number.
C26_ProcessedCount ==
  /\ [](\A r \in 1..Len(runs) :
          LET written == {k \in 1..Len(runs[r].items) :
                            runs[r].items[k].outcome = "written"}
          IN  /\ runs[r].processedCount = Cardinality(written)
              /\ runs[r].processedCount <= Len(runs[r].unprocessedComments)
              /\ \A k \in written : comments[runs[r].unprocessedComments[k]].processed
              /\ "processedCount" \in DOMAIN runs[r].response =>
                   /\ runs[r].pc = "done"
                   /\ runs[r].response.processedCount = Cardinality(written)
              /\ runs[r].log = "completed" => runs[r].pc = "done")
  /\ [][\A r \in 1..Len(runs) :
          LET succeeded == {k \in 1..Len(runs[r].items) :
                              /\ runs[r].items[k].pc = "update"
                              /\ runs'[r].items[k].outcome = "written"}
              failed == {k \in 1..Len(runs[r].items) :
                           /\ runs[r].items[k].pc # "settled"
                           /\ runs'[r].items[k].outcome \in {"failed", "rejected"}}
          IN  /\ Cardinality(succeeded) <= 1
              /\ runs'[r].processedCount = runs[r].processedCount + Cardinality(succeeded)
              /\ failed # {} => runs'[r].processedCount = runs[r].processedCount]_vars

\* The background run over seven records is over with a count of five: the
\* updates of the second and of the sixth record failed.
C26_Witness ==
  \E r \in 1..Len(runs) :
    /\ runs[r].mode = "background"
    /\ runs[r].pc = "done"
    /\ runs[r].log = "completed"
    /\ Len(runs[r].unprocessedComments) = 7
    /\ runs[r].items[2].outcome = "failed"
    /\ runs[r].items[6].outcome = "failed"
    /\ runs[r].processedCount = 5
    /\ \E a \in 1..Len(runs) :
         /\ runs[a].mode = "ondemand"
         /\ runs[a].unprocessedComments = <<2, 6>>
         /\ runs[a].items[1].outcome = "failed"
         /\ runs[a].items[2].outcome = "written"
         /\ runs[a].response.processedCount = 1

\* C27: a poll ends either with an answer that says the session is complete,
\* and then the page is no longer processing and never polls again, or with
\* the next poll scheduled, whether the poll was answered, answered with an
\* error, or failed; a scheduled poll, when its timer fires, is one more poll.
C27_PollsUntilComplete ==
  /\ [][(page.pc = "poll" /\ page'.pc # "poll") =>
          /\ page'.pc \in {"timer", "complete"}
          /\ page'.pc = "complete" =>
               /\ page.query <= Len(queries)
               /\ DataSuccess(queries[page.query].response)
               /\ queries[page.query].response.isComplete
               /\ ~page'.isProcessing
          /\ page'.pc = "timer" =>
               /\ page'.isProcessing
               /\ page'.polls = page.polls]_vars
  /\ [][(page.pc = "timer" /\ page' # page) =>
          /\ page'.pc = "poll"
          /\ page'.polls = page.polls + 1]_vars
  /\ [][page.pc = "complete" => page' = page]_vars

\* C28: once the upload is answered 200, eventually the background run is
\* over, every record of the session is processed, and the page has received
\* an answer that says the session is complete (or has its next poll
\* scheduled, having made MaxPolls polls).
C28_EventuallyComplete ==
  (uploads # <<>> /\ uploads[1].response.status = 200)
    ~> ( /\ runs # <<>>
         /\ runs[1].pc = "done"
         /\ \A id \in 1..Len(comments) : comments[id].processed
         /\ \/ page.pc = "complete"
            \/ page.pc = "timer" /\ page.polls = MaxPolls )

\* C29: the counts of every statistics answer agree with each other: the
\* three sentiment counts add up to processed, and processed is at most total.
C29_StatisticsConsistent ==
  \A q \in 1..Len(queries) :
    (queries[q].kind = "statistics" /\ queries[q].response.status = 200) =>
      /\ queries[q].response.positive + queries[q].response.negative
           + queries[q].response.neutral = queries[q].response.processed
      /\ queries[q].response.processed <= queries[q].response.total

\* C30: in every status answer, progress is 100 exactly when isComplete is
\* true.
C30_HundredIffComplete ==
  call.method = "getStatus" =>
    (call.returned.progress = 100 <=> call.returned.isComplete)

====
